---- MODULE Spec2Model ----
(***************************************************************************)
(* Audio-Library-Exporter: the data grid embedded in the generated report  *)
(* (src/generate_library_html_export.py).  The Python side builds the      *)
(* initial record list; the script of the page filters, sorts, renders,    *)
(* exports and imports it.                                                 *)
(*                                                                         *)
(* Text is a sequence of one-character strings.  A JavaScript/Python       *)
(* number is an integer count of HALVES (3 stands for 1.5), so that the    *)
(* fractional durations the tag library reports are representable; NaN,    *)
(* null and undefined are values of their own.                             *)
(***************************************************************************)
EXTENDS Integers, Sequences, FiniteSets, TLC

(***************************************************************************)
(* Bounds of the model.                                                    *)
(***************************************************************************)
\* Longest pending rule list the popup is driven to.
MaxRules == 1
\* Most file reads in flight at once.
MaxReads == 1
\* Most drag-and-drop moves in one customize dialog.
MaxDrags == 1
\* Longest rule list of a column in the filters the filter engine is run on.
MaxRuleList == 2
\* Most audio files in a scanned folder.
MaxFiles == 3
\* Most cells in a line handed to escapeCSV and splitCSV.
MaxCells == 2

(***************************************************************************)
(* Characters and text.                                                    *)
(***************************************************************************)
Digits == <<"0", "1", "2", "3", "4", "5", "6", "7", "8", "9">>

\* The characters of the model in code-unit order (what < on strings uses).
AsciiOrder ==
  <<"\t", "\n", "\r", " ", "\"", "#", "$", "(", ")", ",", "-", ".", "/",
    "0", "1", "2", "3", "4", "5", "6", "7", "8", "9", ":", ";",
    "A", "B", "C", "D", "E", "F", "G", "H", "I", "J", "K", "L", "M",
    "N", "O", "P", "Q", "R", "S", "T", "U", "V", "W", "X", "Y", "Z", "\\", "^", "_",
    "a", "b", "c", "d", "e", "f", "g", "h", "i", "j", "k", "l", "m",
    "n", "o", "p", "q", "r", "s", "t", "u", "v", "w", "x", "y", "z", "|">>

Upper == <<"A", "B", "C", "D", "E", "F", "G", "H", "I", "J", "K", "L", "M",
           "N", "O", "P", "Q", "R", "S", "T", "U", "V", "W", "X", "Y", "Z">>
Lower == <<"a", "b", "c", "d", "e", "f", "g", "h", "i", "j", "k", "l", "m",
           "n", "o", "p", "q", "r", "s", "t", "u", "v", "w", "x", "y", "z">>

Range(f) == {f[i] : i \in DOMAIN f}

\* the place of x in a sequence without repetitions, 0 when it is not there
IndexOf(seq, x) == IF \E i \in DOMAIN seq : seq[i] = x
                   THEN CHOOSE i \in DOMAIN seq : seq[i] = x
                   ELSE 0

Chars == Range(AsciiOrder)
CodeUnits == [c \in Chars |-> IndexOf(AsciiOrder, c)]
CodeUnit(c) == CodeUnits[c]

DigitChars == Range(Digits)
DigitVals == [c \in DigitChars |-> IndexOf(Digits, c) - 1]
IsDigit(c) == c \in DigitChars
DigitVal(c) == DigitVals[c]
IsSpace(c) == c \in {" ", "\t", "\n", "\r"}
\* \w of a regular expression
WordChars == Range(Upper) \cup Range(Lower) \cup DigitChars \cup {"_"}
IsWordChar(c) == c \in WordChars

LowerChars == [c \in Chars |-> IF IndexOf(Upper, c) > 0 THEN Lower[IndexOf(Upper, c)] ELSE c]
LowerChar(c) == LowerChars[c]
\* String.prototype.toLowerCase / str.lower
ToLowerCase(s) == [i \in 1..Len(s) |-> LowerChar(s[i])]

\* s.substring(a-1, b) with 1-based inclusive bounds
Sub(s, a, b) == IF a > b THEN <<>> ELSE SubSeq(s, a, b)

\* String.prototype.trim
RECURSIVE FirstNonSpace(_, _)
FirstNonSpace(s, i) == IF i > Len(s) \/ ~IsSpace(s[i]) THEN i ELSE FirstNonSpace(s, i + 1)
RECURSIVE LastNonSpace(_, _)
LastNonSpace(s, i) == IF i < 1 \/ ~IsSpace(s[i]) THEN i ELSE LastNonSpace(s, i - 1)
TrimStart(s) == Sub(s, FirstNonSpace(s, 1), Len(s))
TrimEnd(s) == Sub(s, 1, LastNonSpace(s, Len(s)))
Trim(s) == TrimEnd(TrimStart(s))

\* String.prototype.includes / startsWith / endsWith
StartsWithAt(s, pat, i) == i + Len(pat) - 1 <= Len(s) /\ \A k \in 1..Len(pat) : s[i + k - 1] = pat[k]
Includes(s, pat) == \E i \in 1..(Len(s) + 1) : StartsWithAt(s, pat, i)
StartsWith(s, pat) == StartsWithAt(s, pat, 1)
EndsWith(s, pat) == Len(pat) <= Len(s) /\ StartsWithAt(s, pat, Len(s) - Len(pat) + 1)

\* String.prototype.split(sep) for a one-character separator: the pieces between
\* consecutive occurrences of sep
Split(s, sep) ==
  LET seps == {i \in 1..Len(s) : s[i] = sep}
      n == Cardinality(seps)
      pos(k) == IF k = 0 THEN 0
                ELSE IF k = n + 1 THEN Len(s) + 1
                ELSE CHOOSE i \in seps : Cardinality({j \in seps : j < i}) = k - 1
  IN  [k \in 1..(n + 1) |-> Sub(s, pos(k - 1) + 1, pos(k) - 1)]

\* Array.prototype.join(sep)
RECURSIVE Join(_, _)
Join(parts, sep) ==
  IF Len(parts) = 0 THEN <<>>
  ELSE IF Len(parts) = 1 THEN parts[1]
  ELSE parts[1] \o sep \o Join(Tail(parts), sep)

\* a < b on strings: by code units, a proper prefix first
RECURSIVE StrLess(_, _)
StrLess(a, b) ==
  IF Len(b) = 0 THEN FALSE
  ELSE IF Len(a) = 0 THEN TRUE
  ELSE IF a[1] # b[1] THEN CodeUnit(a[1]) < CodeUnit(b[1])
  ELSE StrLess(Tail(a), Tail(b))

(***************************************************************************)
(* Values.  Every value is a record of one shape so that any two compare.  *)
(* t is what typeof reports, except that NaN, null and undefined are told  *)
(* apart: "string", "number", "NaN", "null", "undefined".                  *)
(***************************************************************************)
Str(s) == [t |-> "string", s |-> s, n |-> 0]
\* a number given in halves
Num(h) == [t |-> "number", s |-> <<>>, n |-> h]
\* the integer i as a number
Int2(i) == Num(2 * i)
NaN == [t |-> "NaN", s |-> <<>>, n |-> 0]
Null == [t |-> "null", s |-> <<>>, n |-> 0]
Undefined == [t |-> "undefined", s |-> <<>>, n |-> 0]

\* typeof v === 'number' (NaN is a number to typeof)
TypeofNumber(v) == v.t \in {"number", "NaN"}
\* the truthiness `v || x` and `!v` test
Truthy(v) == CASE v.t = "string" -> Len(v.s) > 0
               [] v.t = "number" -> v.n # 0
               [] OTHER -> FALSE

\* the decimal digits of a natural number
RECURSIVE NatDigits(_)
NatDigits(k) == IF k < 10 THEN <<Digits[k + 1]>> ELSE Append(NatDigits(k \div 10), Digits[(k % 10) + 1])

\* Number.prototype.toString of a number in halves: "12", "-3", "1.5"
NumToString(h) ==
  LET a == IF h < 0 THEN -h ELSE h
      body == NatDigits(a \div 2) \o (IF a % 2 = 1 THEN <<".", "5">> ELSE <<>>)
  IN  IF h < 0 THEN <<"-">> \o body ELSE body

\* String(v)
StringOf(v) == CASE v.t = "string" -> v.s
                 [] v.t = "number" -> NumToString(v.n)
                 [] v.t = "NaN" -> <<"N", "a", "N">>
                 [] v.t = "null" -> <<"n", "u", "l", "l">>
                 [] OTHER -> <<"u", "n", "d", "e", "f", "i", "n", "e", "d">>

\* the value of a run of digits
RECURSIVE DigitsValue(_)
DigitsValue(s) == IF Len(s) = 0 THEN 0 ELSE 10 * DigitsValue(Sub(s, 1, Len(s) - 1)) + DigitVal(s[Len(s)])

AllDigits(s) == \A i \in 1..Len(s) : IsDigit(s[i])

\* A decimal literal without sign: digits, optionally a point and a fraction.  The
\* fractions of the model are .0 and .5 (zeros may follow); the inputs hold no other.
IsDecimal(s) ==
  LET parts == Split(s, ".")
  IN  /\ Len(parts) \in {1, 2}
      /\ \A i \in 1..Len(parts) : AllDigits(parts[i])
      /\ \E i \in 1..Len(parts) : Len(parts[i]) > 0
DecimalHalves(s) ==
  LET parts == Split(s, ".")
      frac == IF Len(parts) = 2 THEN parts[2] ELSE <<>>
  IN  2 * DigitsValue(parts[1]) + (IF Len(frac) > 0 /\ DigitVal(frac[1]) >= 5 THEN 1 ELSE 0)

IsSignedDecimal(s) == IF Len(s) > 0 /\ s[1] \in {"-", "+"} THEN IsDecimal(Tail(s)) ELSE IsDecimal(s)
SignedDecimalHalves(s) == IF Len(s) > 0 /\ s[1] = "-" THEN 0 - DecimalHalves(Tail(s))
                          ELSE IF Len(s) > 0 /\ s[1] = "+" THEN DecimalHalves(Tail(s))
                          ELSE DecimalHalves(s)

\* Number(v): a string is trimmed, "" is 0, a decimal literal its value, else NaN
ToNumber(v) ==
  CASE v.t = "number" -> v
    [] v.t = "string" -> LET s == Trim(v.s)
                         IN  IF Len(s) = 0 THEN Num(0)
                             ELSE IF IsSignedDecimal(s) THEN Num(SignedDecimalHalves(s))
                             ELSE NaN
    [] v.t = "null" -> Num(0)
    [] OTHER -> NaN

\* parseFloat(v): the longest decimal prefix of the string form, after leading
\* white space; NaN when there is none
ParseFloat(v) ==
  LET s == TrimStart(StringOf(v))
      ok == {k \in 1..Len(s) : IsSignedDecimal(Sub(s, 1, k))}
  IN  IF ok = {} THEN NaN
      ELSE Num(SignedDecimalHalves(Sub(s, 1, CHOOSE k \in ok : \A j \in ok : j <= k)))

(***************************************************************************)
(* The Python side: one record per audio file.  A scanned file is          *)
(*   [path, audio, tags, info, folder]                                     *)
(* audio: "ok" (mutagen.File gave a file), "none" (it recognised nothing), *)
(* "raise" (it raised); tags: tag name -> text; info: the stream info      *)
(* (length in halves of a second, bitrate in bit/s, sample_rate in Hz);    *)
(* folder: the names of the files beside the audio file.                   *)
(***************************************************************************)
\* os.path.basename / os.path.dirname / os.path.splitext(...)[0], "/" separated
LastIndexOf(s, c) == IF \E i \in 1..Len(s) : s[i] = c
                     THEN CHOOSE i \in 1..Len(s) : s[i] = c /\ \A j \in (i+1)..Len(s) : s[j] # c
                     ELSE 0
Basename(p) == Sub(p, LastIndexOf(p, "/") + 1, Len(p))
Dirname(p) == Sub(p, 1, LastIndexOf(p, "/") - 1)
SplitextRoot(name) == IF LastIndexOf(name, ".") > 1 THEN Sub(name, 1, LastIndexOf(name, ".") - 1) ELSE name

\* int(v) of Python on text: optional sign and digits, white space around; FALSE/0 when it raises
PyIntOk(s) == LET u == Trim(s) IN Len(u) > 0 /\ IsSignedDecimal(u) /\ ~Includes(u, <<".">>) /\ (u[1] \in {"-", "+"} => Len(u) > 1)
PyInt(s) == SignedDecimalHalves(Trim(s)) \div 2

CoverExts == <<<<".", "j", "p", "g">>, <<".", "p", "n", "g">>, <<".", "j", "p", "e", "g">>>>
CoverNames == <<<<"c", "o", "v", "e", "r">>, <<"f", "o", "l", "d", "e", "r">>, <<"f", "r", "o", "n", "t">>, <<"a", "l", "b", "u", "m">>>>

\* find_cover_image: extensions in the outer loop, names in the inner one, first hit wins
RECURSIVE FindCoverFrom(_, _, _)
FindCoverFrom(file, e, n) ==
  IF e > Len(CoverExts) THEN Null
  ELSE IF n > Len(CoverNames) THEN FindCoverFrom(file, e + 1, 1)
  ELSE IF (CoverNames[n] \o CoverExts[e]) \in file.folder
       THEN Str(Dirname(file.path) \o <<"/">> \o CoverNames[n] \o CoverExts[e])
  ELSE FindCoverFrom(file, e, n + 1)
find_cover_image(file) == FindCoverFrom(file, 1, 1)

\* get_tag(key, default) and get_num(key, default) inside extract_metadata
get_tag(file, key, default) == IF key \in DOMAIN file.tags THEN file.tags[key] ELSE default
get_num(file, key, default) ==
  LET v == IF key \in DOMAIN file.tags THEN file.tags[key] ELSE NatDigits(default)
      w == IF Includes(v, <<"/">>) THEN Split(v, "/")[1] ELSE v
  IN  IF PyIntOk(w) THEN PyInt(w) ELSE default

\* the record extract_metadata builds when the tag library raised
ErrorMetadata(file) ==
  [file_path |-> Str(file.path), cover |-> find_cover_image(file),
   album_artist |-> Str(<<"E", "r", "r", "o", "r">>), artist |-> Str(<<"E", "r", "r", "o", "r">>),
   track_name |-> Str(SplitextRoot(Basename(file.path))), album_name |-> Str(<<"E", "r", "r", "o", "r">>),
   year |-> Int2(0), track_number |-> Int2(0), disc_number |-> Int2(0),
   genre |-> Str(<<>>), composer |-> Str(<<>>), lyricist |-> Str(<<>>), language |-> Str(<<>>),
   comment |-> Str(<<>>), copyright |-> Str(<<>>), publisher |-> Str(<<>>), bpm |-> Int2(0),
   isrc |-> Str(<<>>), rating |-> Int2(0), length |-> Int2(0), bitrate |-> Int2(0),
   sample_rate |-> Int2(0)]

\* the record extract_metadata builds from a file the tag library read
TagMetadata(file) ==
  [file_path |-> Str(file.path), cover |-> find_cover_image(file),
   album_artist |-> Str(get_tag(file, "albumartist", get_tag(file, "artist", <<"U", "n", "k", "n", "o", "w", "n", " ", "A", "l", "b", "u", "m", " ", "A", "r", "t", "i", "s", "t">>))),
   artist |-> Str(get_tag(file, "artist", <<"U", "n", "k", "n", "o", "w", "n", " ", "A", "r", "t", "i", "s", "t">>)),
   track_name |-> Str(get_tag(file, "title", SplitextRoot(Basename(file.path)))),
   album_name |-> Str(get_tag(file, "album", <<"U", "n", "k", "n", "o", "w", "n", " ", "A", "l", "b", "u", "m">>)),
   year |-> Int2(get_num(file, "date", 0)),
   track_number |-> Int2(get_num(file, "tracknumber", 0)),
   disc_number |-> Int2(get_num(file, "discnumber", 1)),
   genre |-> Str(get_tag(file, "genre", <<>>)), composer |-> Str(get_tag(file, "composer", <<>>)),
   lyricist |-> Str(get_tag(file, "lyricist", <<>>)), language |-> Str(get_tag(file, "language", <<>>)),
   comment |-> Str(get_tag(file, "comment", <<>>)), copyright |-> Str(get_tag(file, "copyright", <<>>)),
   publisher |-> Str(get_tag(file, "organization", <<>>)),
   bpm |-> Int2(get_num(file, "bpm", 0)), isrc |-> Str(get_tag(file, "isrc", <<>>)),
   length |-> Num(file.info.length),
   bitrate |-> Int2(file.info.bitrate \div 1000),
   sample_rate |-> Int2(file.info.sample_rate),
   rating |-> Int2(get_num(file, "rating", 0))]

\* extract_metadata: <<>> stands for the None it returns, <<r>> for a record r
extract_metadata(file) ==
  CASE file.audio = "none" -> <<>>
    [] file.audio = "raise" -> <<ErrorMetadata(file)>>
    [] OTHER -> <<TagMetadata(file)>>

\* collect_metadata over the audio files of the walk, in walk order
RECURSIVE collect_metadata(_)
collect_metadata(files) ==
  IF Len(files) = 0 THEN <<>>
  ELSE extract_metadata(files[1]) \o collect_metadata(Tail(files))

\* format_length: seconds (in halves) to M:SS or H:MM:SS
Pad2(k) == IF k < 10 THEN <<"0">> \o NatDigits(k) ELSE NatDigits(k)
\* floor division and the matching remainder, as // and % of Python
FloorDiv(a, b) == a \div b
format_length(h) ==
  IF h = 0 THEN <<"0", ":", "0", "0">>
  ELSE LET hours == FloorDiv(h, 2 * 3600)
           minutes == FloorDiv(h % (2 * 3600), 2 * 60)
           sec == (h % (2 * 60)) \div 2
       IN  IF hours > 0 THEN StringOf(Int2(hours)) \o <<":">> \o Pad2(minutes) \o <<":">> \o Pad2(sec)
           ELSE StringOf(Int2(minutes)) \o <<":">> \o Pad2(sec)

\* generate_html: every record gets length_display; the list is embedded as audioData
WithField(rec, k, v) == [x \in DOMAIN rec \cup {k} |-> IF x = k THEN v ELSE rec[x]]
generate_html(metadata_list) ==
  [i \in 1..Len(metadata_list) |->
      WithField(metadata_list[i], "length_display", Str(format_length(metadata_list[i]["length"].n)))]

(***************************************************************************)
(* The page: the column catalog.                                           *)
(***************************************************************************)
\* the text of each column key (the keys index records as strings)
KeyText ==
  [cover |-> <<"c", "o", "v", "e", "r">>,
   track_name |-> <<"t", "r", "a", "c", "k", "_", "n", "a", "m", "e">>,
   artist |-> <<"a", "r", "t", "i", "s", "t">>,
   album_artist |-> <<"a", "l", "b", "u", "m", "_", "a", "r", "t", "i", "s", "t">>,
   album_name |-> <<"a", "l", "b", "u", "m", "_", "n", "a", "m", "e">>,
   year |-> <<"y", "e", "a", "r">>,
   disc_number |-> <<"d", "i", "s", "c", "_", "n", "u", "m", "b", "e", "r">>,
   track_number |-> <<"t", "r", "a", "c", "k", "_", "n", "u", "m", "b", "e", "r">>,
   genre |-> <<"g", "e", "n", "r", "e">>,
   composer |-> <<"c", "o", "m", "p", "o", "s", "e", "r">>,
   lyricist |-> <<"l", "y", "r", "i", "c", "i", "s", "t">>,
   publisher |-> <<"p", "u", "b", "l", "i", "s", "h", "e", "r">>,
   language |-> <<"l", "a", "n", "g", "u", "a", "g", "e">>,
   comment |-> <<"c", "o", "m", "m", "e", "n", "t">>,
   rating |-> <<"r", "a", "t", "i", "n", "g">>,
   length |-> <<"l", "e", "n", "g", "t", "h">>,
   bpm |-> <<"b", "p", "m">>,
   bitrate |-> <<"b", "i", "t", "r", "a", "t", "e">>,
   sample_rate |-> <<"s", "a", "m", "p", "l", "e", "_", "r", "a", "t", "e">>,
   copyright |-> <<"c", "o", "p", "y", "r", "i", "g", "h", "t">>,
   isrc |-> <<"i", "s", "r", "c">>]

Col(key, label, visible, type) == [key |-> key, label |-> label, visible |-> visible, type |-> type]

\* `let columns = [...]`: the default catalog, in order
DefaultColumns ==
  <<Col("cover", <<"C", "o", "v", "e", "r", " ", "A", "r", "t">>, TRUE, "image"),
    Col("track_name", <<"T", "i", "t", "l", "e">>, TRUE, "text"),
    Col("artist", <<"A", "r", "t", "i", "s", "t">>, TRUE, "text"),
    Col("album_artist", <<"A", "l", "b", "u", "m", " ", "A", "r", "t", "i", "s", "t">>, TRUE, "text"),
    Col("album_name", <<"A", "l", "b", "u", "m">>, TRUE, "text"),
    Col("year", <<"Y", "e", "a", "r">>, TRUE, "number"),
    Col("disc_number", <<"D", "i", "s", "c", " ", "#">>, TRUE, "number"),
    Col("track_number", <<"T", "r", "a", "c", "k", " ", "#">>, TRUE, "number"),
    Col("genre", <<"G", "e", "n", "r", "e">>, TRUE, "text"),
    Col("composer", <<"C", "o", "m", "p", "o", "s", "e", "r">>, TRUE, "text"),
    Col("lyricist", <<"L", "y", "r", "i", "c", "i", "s", "t">>, TRUE, "text"),
    Col("publisher", <<"P", "u", "b", "l", "i", "s", "h", "e", "r">>, TRUE, "text"),
    Col("language", <<"L", "a", "n", "g", "u", "a", "g", "e">>, TRUE, "text"),
    Col("comment", <<"C", "o", "m", "m", "e", "n", "t">>, TRUE, "text"),
    Col("rating", <<"R", "a", "t", "i", "n", "g">>, TRUE, "number"),
    Col("length", <<"L", "e", "n", "g", "t", "h">>, FALSE, "duration"),
    Col("bpm", <<"B", "P", "M">>, FALSE, "number"),
    Col("bitrate", <<"B", "i", "t", "r", "a", "t", "e", " ", "(", "k", "b", "p", "s", ")">>, FALSE, "number"),
    Col("sample_rate", <<"S", "a", "m", "p", "l", "e", " ", "R", "a", "t", "e", " ", "(", "H", "z", ")">>, FALSE, "number"),
    Col("copyright", <<"C", "o", "p", "y", "r", "i", "g", "h", "t">>, FALSE, "text"),
    Col("isrc", <<"I", "S", "R", "C">>, FALSE, "text")>>

ColumnKeys == {DefaultColumns[i].key : i \in 1..Len(DefaultColumns)}

\* columns.find(c => c.key === k): the first such column, <<>> when there is none
FindByKey(cols, k) ==
  IF \E i \in 1..Len(cols) : cols[i].key = k
  THEN <<cols[CHOOSE i \in 1..Len(cols) : cols[i].key = k /\ \A j \in 1..(i-1) : cols[j].key # k]>>
  ELSE <<>>

\* item[k]: a missing property reads as undefined
Get(item, k) == IF k \in DOMAIN item THEN item[k] ELSE Undefined

(***************************************************************************)
(* Regular expressions, as far as checkRule builds them.  A pattern text   *)
(* is read into a run of atoms: "." matches any character but a line       *)
(* break, "^" and "$" match at the start and the end of the target, "\b"   *)
(* at a word boundary, a backslash before any other character makes that   *)
(* character a literal, plain groups "(" ")" only bracket a run, and every *)
(* other character matches itself.  The rule values of the model hold no   *)
(* other operator of the pattern language.  The RegExp constructor throws  *)
(* on unbalanced brackets and on a backslash that ends the pattern.        *)
(***************************************************************************)
Atom(kind, c) == [kind |-> kind, c |-> c]

\* new RegExp(pattern) reading the pattern text from index i
RECURSIVE RegExpParse(_, _, _, _)
RegExpParse(p, i, depth, atoms) ==
  IF i > Len(p) THEN [ok |-> depth = 0, atoms |-> atoms]
  ELSE IF p[i] = "\\"
       THEN IF i = Len(p) THEN [ok |-> FALSE, atoms |-> atoms]
            ELSE RegExpParse(p, i + 2, depth,
                             Append(atoms, IF p[i + 1] = "b" THEN Atom("wordb", "b") ELSE Atom("lit", p[i + 1])))
  ELSE IF p[i] = "(" THEN RegExpParse(p, i + 1, depth + 1, atoms)
  ELSE IF p[i] = ")"
       THEN IF depth > 0 THEN RegExpParse(p, i + 1, depth - 1, atoms) ELSE [ok |-> FALSE, atoms |-> atoms]
  ELSE RegExpParse(p, i + 1, depth,
                   Append(atoms, CASE p[i] = "." -> Atom("any", ".")
                                   [] p[i] = "^" -> Atom("start", "^")
                                   [] p[i] = "$" -> Atom("end", "$")
                                   [] OTHER -> Atom("lit", p[i])))
\* new RegExp(pattern) does not throw
RegExpCompiles(pattern) == RegExpParse(pattern, 1, 0, <<>>).ok
\* the atoms of a pattern text
PatternAtoms(pattern) == RegExpParse(pattern, 1, 0, <<>>).atoms
\* the atoms of an escaped literal: search.replace(/[.*+?^${}()|[\]\\]/g, '\\$&')
LiteralAtoms(search) == [i \in 1..Len(search) |-> Atom("lit", search[i])]

AtomMatches(atom, c, ignoreCase) ==
  IF atom.kind = "any" THEN c \notin {"\n", "\r"}
  ELSE IF ignoreCase THEN LowerChar(atom.c) = LowerChar(c)
  ELSE atom.c = c

\* \b at position p (between target[p-1] and target[p])
WordAt(target, p) == p >= 1 /\ p <= Len(target) /\ IsWordChar(target[p])
WordBoundary(target, p) == WordAt(target, p - 1) # WordAt(target, p)

\* the atoms from the k-th match the target from position pos
RECURSIVE MatchFrom(_, _, _, _, _)
MatchFrom(atoms, k, target, pos, ignoreCase) ==
  IF k > Len(atoms) THEN TRUE
  ELSE CASE atoms[k].kind = "wordb" ->
              WordBoundary(target, pos) /\ MatchFrom(atoms, k + 1, target, pos, ignoreCase)
         [] atoms[k].kind = "start" -> pos = 1 /\ MatchFrom(atoms, k + 1, target, pos, ignoreCase)
         [] atoms[k].kind = "end" ->
              pos = Len(target) + 1 /\ MatchFrom(atoms, k + 1, target, pos, ignoreCase)
         [] OTHER -> /\ pos <= Len(target)
                     /\ AtomMatches(atoms[k], target[pos], ignoreCase)
                     /\ MatchFrom(atoms, k + 1, target, pos + 1, ignoreCase)

\* re.test(target) for re = [atoms, ignoreCase]
RegExpTest(re, target) ==
  \E i \in 1..(Len(target) + 1) : MatchFrom(re.atoms, 1, target, i, re.ignoreCase)

(***************************************************************************)
(* The filter engine.  A rule is                                           *)
(*   [operator, value, value2, matchCase, wholeWord, useRegex]             *)
(* with value and value2 the texts of the two inputs of the popup.         *)
(***************************************************************************)
Rule(op, v1, v2, mc, ww, rx) ==
  [operator |-> op, value |-> v1, value2 |-> v2, matchCase |-> mc, wholeWord |-> ww, useRegex |-> rx]

NumLess(a, b) == a.t = "number" /\ b.t = "number" /\ a.n < b.n
NumLeq(a, b) == a.t = "number" /\ b.t = "number" /\ a.n <= b.n
NumEq(a, b) == a.t = "number" /\ b.t = "number" /\ a.n = b.n

\* the numeric branch with the lower bound of between exclusive
checkRuleNumExclusive(rule, numVal) ==
  LET f1 == ParseFloat(Str(rule.value))
      f2 == ParseFloat(Str(rule.value2))
  IN  IF f1.t = "NaN" THEN TRUE
      ELSE CASE rule.operator = "gt" -> NumLess(f1, numVal)
             [] rule.operator = "lt" -> NumLess(numVal, f1)
             [] rule.operator = "eq" -> NumEq(numVal, f1)
             [] rule.operator = "between" -> NumLess(f1, numVal) /\ NumLeq(numVal, f2)
             [] OTHER -> TRUE

\* the numeric branch without `if (isNaN(f1)) return true`
checkRuleNumUnguarded(rule, numVal) ==
  LET f1 == ParseFloat(Str(rule.value))
      f2 == ParseFloat(Str(rule.value2))
  IN  CASE rule.operator = "gt" -> NumLess(f1, numVal)
        [] rule.operator = "lt" -> NumLess(numVal, f1)
        [] rule.operator = "eq" -> NumEq(numVal, f1)
        [] rule.operator = "between" -> NumLeq(f1, numVal) /\ NumLeq(numVal, f2)
        [] OTHER -> TRUE

\* the numeric branch with an unread second value of between taken as no upper bound
checkRuleNumOpenEnded(rule, numVal) ==
  LET f1 == ParseFloat(Str(rule.value))
      f2 == ParseFloat(Str(rule.value2))
  IN  IF f1.t = "NaN" THEN TRUE
      ELSE CASE rule.operator = "gt" -> NumLess(f1, numVal)
             [] rule.operator = "lt" -> NumLess(numVal, f1)
             [] rule.operator = "eq" -> NumEq(numVal, f1)
             [] rule.operator = "between" -> NumLeq(f1, numVal) /\ (f2.t = "NaN" \/ NumLeq(numVal, f2))
             [] OTHER -> TRUE

\* the numeric branch of checkRule
checkRuleNum(rule, numVal) ==
  LET f1 == ParseFloat(Str(rule.value))
      f2 == ParseFloat(Str(rule.value2))
  IN  IF f1.t = "NaN" THEN TRUE
      ELSE CASE rule.operator = "gt" -> NumLess(f1, numVal)
             [] rule.operator = "lt" -> NumLess(numVal, f1)
             [] rule.operator = "eq" -> NumEq(numVal, f1)
             [] rule.operator = "between" -> NumLeq(f1, numVal) /\ NumLeq(numVal, f2)
             [] OTHER -> TRUE

\* the branch of checkRule for rule.useRegex
checkRuleRegex(rule, strVal) ==
  LET worded == IF rule.wholeWord THEN <<"\\", "b">> \o rule.value \o <<"\\", "b">> ELSE rule.value
      equal == IF rule.operator = "eq" THEN <<"^">> \o worded \o <<"$">> ELSE worded
      started == IF rule.operator = "starts" THEN <<"^">> \o equal ELSE equal
      pattern == IF rule.operator = "ends" THEN started \o <<"$">> ELSE started
  IN  IF ~RegExpCompiles(pattern) THEN FALSE
      ELSE LET re == [atoms |-> PatternAtoms(pattern), ignoreCase |-> ~rule.matchCase]
               match == RegExpTest(re, strVal)
           IN  IF rule.operator = "not_contains" THEN ~match ELSE match

\* the literal branch without the whole-word test
checkRuleTextPlain(rule, strVal) ==
  LET target == IF rule.matchCase THEN strVal ELSE ToLowerCase(strVal)
      search == IF rule.matchCase THEN rule.value ELSE ToLowerCase(rule.value)
  IN  CASE rule.operator = "contains" -> Includes(target, search)
        [] rule.operator = "not_contains" -> ~Includes(target, search)
        [] rule.operator = "starts" -> StartsWith(target, search)
        [] rule.operator = "ends" -> EndsWith(target, search)
        [] rule.operator = "eq" -> target = search
        [] OTHER -> TRUE

\* the branch of checkRule for literal text
checkRuleText(rule, strVal) ==
  LET target == IF rule.matchCase THEN strVal ELSE ToLowerCase(strVal)
      search == IF rule.matchCase THEN rule.value ELSE ToLowerCase(rule.value)
  IN  IF rule.wholeWord
      THEN LET re == [atoms |-> <<Atom("wordb", "b")>> \o LiteralAtoms(search) \o <<Atom("wordb", "b")>>,
                      ignoreCase |-> ~rule.matchCase]
               match == RegExpTest(re, target)
           IN  IF rule.operator = "not_contains" THEN ~match ELSE match
      ELSE CASE rule.operator = "contains" -> Includes(target, search)
             [] rule.operator = "not_contains" -> ~Includes(target, search)
             [] rule.operator = "starts" -> StartsWith(target, search)
             [] rule.operator = "ends" -> EndsWith(target, search)
             [] rule.operator = "eq" -> target = search
             [] OTHER -> TRUE

checkRule(rule, numVal, strVal, isNum) ==
  IF isNum THEN checkRuleNum(rule, numVal)
  ELSE IF rule.useRegex THEN checkRuleRegex(rule, strVal)
  ELSE checkRuleText(rule, strVal)

\* the keys processData treats as numbers
IsNumKey(key) ==
  key \in {"year", "track_number", "disc_number", "bpm", "bitrate", "sample_rate", "rating", "length"}

\* the rule loop letting an item through as soon as one rule holds
RECURSIVE RulesPassAny(_, _, _, _, _)
RulesPassAny(rules, i, numVal, strVal, isNum) ==
  IF i > Len(rules) THEN FALSE
  ELSE IF checkRule(rules[i], numVal, strVal, isNum) THEN TRUE
  ELSE RulesPassAny(rules, i + 1, numVal, strVal, isNum)

\* `for (let rule of rules) if (!checkRule(...)) return false`
RECURSIVE RulesPassFrom(_, _, _, _, _)
RulesPassFrom(rules, i, numVal, strVal, isNum) ==
  IF i > Len(rules) THEN TRUE
  ELSE IF ~checkRule(rules[i], numVal, strVal, isNum) THEN FALSE
  ELSE RulesPassFrom(rules, i + 1, numVal, strVal, isNum)

\* `for (let key in activeFilters)`: the callback of audioData.filter for one item
RECURSIVE ItemPasses(_, _, _)
ItemPasses(item, filters, keys) ==
  IF keys = {} THEN TRUE
  ELSE LET key == CHOOSE k \in keys : TRUE
           rules == filters[key]
           rawVal == Get(item, key)
           isNum == IsNumKey(key)
           numVal == IF isNum THEN ToNumber(rawVal) ELSE Num(0)
           strVal == IF Truthy(rawVal) THEN StringOf(rawVal) ELSE <<>>
       IN  IF Len(rules) = 0 THEN ItemPasses(item, filters, keys \ {key})
           ELSE IF ~RulesPassFrom(rules, 1, numVal, strVal, isNum) THEN FALSE
           ELSE ItemPasses(item, filters, keys \ {key})

\* the filter loop starting at the second item
FilterDataSkipFirst(data, filters) ==
  LET rest == IF Len(data) = 0 THEN <<>> ELSE Tail(data)
  IN  SelectSeq(rest, LAMBDA item : ItemPasses(item, filters, DOMAIN filters))

\* audioData.filter(...): the items that pass, in the order of audioData
RECURSIVE FilterData(_, _)
FilterData(data, filters) ==
  IF Len(data) = 0 THEN <<>>
  ELSE (IF ItemPasses(data[1], filters, DOMAIN filters) THEN <<data[1]>> ELSE <<>>)
       \o FilterData(Tail(data), filters)

(***************************************************************************)
(* The sort engine.                                                        *)
(***************************************************************************)
\* the comparator of sortData: negative, zero or positive (NaN counts as zero)
SortCompare(a, b, sort) ==
  LET rawA == Get(a, sort.key)
      rawB == Get(b, sort.key)
      valA == IF rawA.t \in {"null", "undefined"} THEN Str(<<>>) ELSE rawA
      valB == IF rawB.t \in {"null", "undefined"} THEN Str(<<>>) ELSE rawB
  IN  IF TypeofNumber(valA) /\ TypeofNumber(valB)
      THEN IF valA.t = "NaN" \/ valB.t = "NaN" THEN 0
           ELSE IF sort.asc THEN valA.n - valB.n ELSE valB.n - valA.n
      ELSE LET sa == ToLowerCase(StringOf(valA))
               sb == ToLowerCase(StringOf(valB))
           IN  IF StrLess(sa, sb) THEN (IF sort.asc THEN -1 ELSE 1)
               ELSE IF StrLess(sb, sa) THEN (IF sort.asc THEN 1 ELSE -1)
               ELSE 0

\* Array.prototype.sort is stable: an item goes after every item it does not precede
RECURSIVE InsertSorted(_, _, _)
InsertSorted(sorted, item, sort) ==
  IF Len(sorted) = 0 THEN <<item>>
  ELSE IF SortCompare(item, sorted[Len(sorted)], sort) >= 0 THEN Append(sorted, item)
  ELSE Append(InsertSorted(Sub(sorted, 1, Len(sorted) - 1), item, sort), sorted[Len(sorted)])
RECURSIVE StableSort(_, _, _)
StableSort(data, i, sort) ==
  IF i = 0 THEN <<>>
  ELSE InsertSorted(StableSort(data, i - 1, sort), data[i], sort)

\* sortData: nothing when no key is set
sortData(data, sort) == IF sort.key = "null" THEN data ELSE StableSort(data, Len(data), sort)

\* The comparator is a consistent comparator on the items: equality and order are
\* transitive.  It is not when a NaN (equal to every number) sits between different
\* numbers, or when numbers (compared by value) and texts (compared as texts) mix.
ConsistentOn(data, sort) ==
  LET n == Len(data)
      val(i) == Get(data[i], sort.key)
  IN  \/ \A i \in 1..n : val(i).t = "number"
      \/ \A i \in 1..n : ~TypeofNumber(val(i))
      \/ LET c == [i \in 1..n, j \in 1..n |-> SortCompare(data[i], data[j], sort)]
         IN  \A i, j, k \in 1..n :
               /\ (c[i, j] = 0 /\ c[j, k] = 0) => c[i, k] = 0
               /\ (c[i, j] < 0 /\ c[j, k] < 0) => c[i, k] < 0

\* the orders of the items of a list
OrdersOf(data) ==
  LET n == Len(data)
  IN  {[i \in 1..n |-> data[p[i]]] :
         p \in {q \in [1..n -> 1..n] : \A i, j \in 1..n : i # j => q[i] # q[j]}}

\* What visibleData.sort(comparator) can leave: the stable sort for a consistent
\* comparator; otherwise the order is implementation-defined, any order of the items.
SortOutcomes(data, sort) ==
  IF sort.key = "null" \/ ConsistentOn(data, sort) THEN {sortData(data, sort)}
  ELSE OrdersOf(data)

(***************************************************************************)
(* Delimited text.  A delimiter is a text: the value of the chosen option  *)
(* of the delimiter select.  The Tab option carries the two characters     *)
(* backslash and t, and the handlers compare it with the tab character,    *)
(* so it stays those two characters.                                       *)
(***************************************************************************)
Comma == <<",">>
TabOption == <<"\\", "t">>
Semicolon == <<";">>
Pipe == <<"|">>
DelimiterOptions == {Comma, TabOption, Semicolon, Pipe}

\* `if (delimiter === '\t') delimiter = '\t'` in both handlers
DelimiterOf(option) == IF option = <<"\t">> THEN <<"\t">> ELSE option

\* str.replace(/"/g, '""')
RECURSIVE DoubleQuotes(_)
DoubleQuotes(s) ==
  IF Len(s) = 0 THEN <<>>
  ELSE (IF s[1] = "\"" THEN <<"\"", "\"">> ELSE <<s[1]>>) \o DoubleQuotes(Tail(s))

\* escapeCSV without the test for a line break
escapeCSVNoNewline(str, delimiter) ==
  IF Includes(str, delimiter) \/ Includes(str, <<"\"">>)
  THEN <<"\"">> \o DoubleQuotes(str) \o <<"\"">>
  ELSE str

escapeCSV(str, delimiter) ==
  IF Includes(str, delimiter) \/ Includes(str, <<"\"">>) \/ Includes(str, <<"\n">>)
  THEN <<"\"">> \o DoubleQuotes(str) \o <<"\"">>
  ELSE str

\* the loop of splitCSV from index i; a run of characters that are neither a quote
\* nor the delimiter is appended to `current` in one step
RECURSIVE SplitCSVFrom(_, _, _, _, _, _)
SplitCSVFrom(str, delimiter, i, result, current, inQuote) ==
  IF i > Len(str) THEN Append(result, current)
  ELSE IF str[i] = "\"" /\ i + 1 <= Len(str) /\ str[i + 1] = "\""
       THEN SplitCSVFrom(str, delimiter, i + 2, result, Append(current, "\""), inQuote)
  ELSE IF str[i] = "\"" THEN SplitCSVFrom(str, delimiter, i + 1, result, current, ~inQuote)
  ELSE IF <<str[i]>> = delimiter /\ ~inQuote
       THEN SplitCSVFrom(str, delimiter, i + 1, Append(result, current), <<>>, inQuote)
  ELSE LET stops == {j \in (i + 1)..Len(str) : str[j] = "\"" \/ <<str[j]>> = delimiter}
           next == IF stops = {} THEN Len(str) + 1
                   ELSE CHOOSE j \in stops : \A k \in stops : j <= k
       IN  SplitCSVFrom(str, delimiter, next, result, current \o SubSeq(str, i, next - 1), inQuote)
\* splitCSV taking every quote as the start or the end of a quoted run
RECURSIVE SplitCSVToggling(_, _, _, _, _, _)
SplitCSVToggling(str, delimiter, i, result, current, inQuote) ==
  IF i > Len(str) THEN Append(result, current)
  ELSE IF str[i] = "\"" THEN SplitCSVToggling(str, delimiter, i + 1, result, current, ~inQuote)
  ELSE IF <<str[i]>> = delimiter /\ ~inQuote
       THEN SplitCSVToggling(str, delimiter, i + 1, Append(result, current), <<>>, inQuote)
  ELSE SplitCSVToggling(str, delimiter, i + 1, result, Append(current, str[i]), inQuote)
splitCSVToggling(str, delimiter) == SplitCSVToggling(str, delimiter, 1, <<>>, <<>>, FALSE)
splitCSV(str, delimiter) == SplitCSVFrom(str, delimiter, 1, <<>>, <<>>, FALSE)

\* arithmetic of numbers that may be NaN
NumAdd(a, b) == IF a.t = "number" /\ b.t = "number" THEN Num(a.n + b.n) ELSE NaN
NumTimes(a, k) == IF a.t = "number" THEN Num(a.n * k) ELSE NaN

\* a % b of JavaScript on integers: the sign of the dividend
JsRem(a, b) == IF a >= 0 THEN a % b ELSE 0 - ((0 - a) % b)
\* s.padStart(2, '0')
PadStart2(s) == IF Len(s) < 2 THEN <<"0">> \o s ELSE s

formatLengthJS(seconds) ==
  IF ~Truthy(seconds) THEN <<"0", ":", "0", "0">>
  ELSE IF seconds.t # "number" THEN <<"N", "a", "N", ":", "N", "a", "N">>
  ELSE LET h == seconds.n \div (2 * 3600)
           m == JsRem(seconds.n, 2 * 3600) \div (2 * 60)
           s == JsRem(seconds.n, 2 * 60) \div 2
           sStr == PadStart2(StringOf(Int2(s)))
       IN  IF h > 0 THEN StringOf(Int2(h)) \o <<":">> \o PadStart2(StringOf(Int2(m))) \o <<":">> \o sStr
           ELSE StringOf(Int2(m)) \o <<":">> \o sStr

\* the header loop of parseImport: keyMap, as a sequence with "" where no column matched
\* the header loop matching labels and keys as they are written
HeaderKeyExact(cols, h) ==
  LET hit == {i \in 1..Len(cols) : cols[i].label = h \/ KeyText[cols[i].key] = h}
  IN  IF hit = {} THEN "" ELSE cols[CHOOSE i \in hit : \A j \in hit : i <= j].key
HeaderKey(cols, h) ==
  LET hit == {i \in 1..Len(cols) : ToLowerCase(cols[i].label) = ToLowerCase(h)
                                   \/ ToLowerCase(KeyText[cols[i].key]) = ToLowerCase(h)}
  IN  IF hit = {} THEN "" ELSE cols[CHOOSE i \in hit : \A j \in hit : i <= j].key
KeyMap(cols, headers) == [i \in 1..Len(headers) |-> HeaderKey(cols, Trim(headers[i]))]

\* the value parseImport stores for the cell v under column col
\* the cell value without `|| 0` on a numeric column
ImportCellUncoerced(col, v) ==
  LET trimmed == Trim(v)
      n == ToNumber(Str(trimmed))
      val == IF col.type = "number" THEN n ELSE Str(trimmed)
  IN  IF col.key = "length"
      THEN IF Includes(val.s, <<":">>)
           THEN LET parts == [i \in 1..Len(Split(val.s, ":")) |-> ToNumber(Str(Split(val.s, ":")[i]))]
                IN  IF Len(parts) = 2 THEN NumAdd(NumTimes(parts[1], 60), parts[2])
                    ELSE IF Len(parts) = 3
                         THEN NumAdd(NumAdd(NumTimes(parts[1], 3600), NumTimes(parts[2], 60)), parts[3])
                    ELSE val
           ELSE ToNumber(val)
      ELSE val

ImportCell(col, v) ==
  LET trimmed == Trim(v)
      n == ToNumber(Str(trimmed))
      val == IF col.type = "number" THEN (IF Truthy(n) THEN n ELSE Num(0)) ELSE Str(trimmed)
  IN  IF col.key = "length"
      THEN IF Includes(val.s, <<":">>)
           THEN LET parts == [i \in 1..Len(Split(val.s, ":")) |-> ToNumber(Str(Split(val.s, ":")[i]))]
                IN  IF Len(parts) = 2 THEN NumAdd(NumTimes(parts[1], 60), parts[2])
                    ELSE IF Len(parts) = 3
                         THEN NumAdd(NumAdd(NumTimes(parts[1], 3600), NumTimes(parts[2], 60)), parts[3])
                    ELSE val
           ELSE ToNumber(val)
      ELSE val

\* `columns.forEach(c => obj[c.key] = ...)`: the record of defaults
DefaultRecord(cols) ==
  [k \in {cols[i].key : i \in 1..Len(cols)} |->
      IF FindByKey(cols, k)[1].type = "number" THEN Num(0) ELSE Str(<<>>)]

\* `vals.forEach((v, idx) => ...)` from index idx
RECURSIVE ImportCellsFrom(_, _, _, _, _)
ImportCellsFrom(cols, keyMap, vals, idx, obj) ==
  IF idx > Len(vals) THEN obj
  ELSE IF idx <= Len(keyMap) /\ keyMap[idx] # ""
       THEN ImportCellsFrom(cols, keyMap, vals, idx + 1,
              [obj EXCEPT ![keyMap[idx]] = ImportCell(FindByKey(cols, keyMap[idx])[1], vals[idx])])
  ELSE ImportCellsFrom(cols, keyMap, vals, idx + 1, obj)

\* the record of a line with the display string computed before the cells are read
ImportRowStale(cols, keyMap, line, delimiter) ==
  LET obj == ImportCellsFrom(cols, keyMap, splitCSV(line, delimiter), 1, DefaultRecord(cols))
  IN  WithField(obj, "length_display", Str(formatLengthJS(Get(DefaultRecord(cols), "length"))))

ImportRow(cols, keyMap, line, delimiter) ==
  LET obj == ImportCellsFrom(cols, keyMap, splitCSV(line, delimiter), 1, DefaultRecord(cols))
  IN  WithField(obj, "length_display", Str(formatLengthJS(Get(obj, "length"))))

\* the data loop of parseImport from line i: newData
RECURSIVE ImportRowsFrom(_, _, _, _, _)
ImportRowsFrom(cols, keyMap, lines, i, delimiter) ==
  IF i > Len(lines) THEN <<>>
  ELSE IF Len(Trim(lines[i])) = 0 THEN ImportRowsFrom(cols, keyMap, lines, i + 1, delimiter)
  ELSE <<ImportRow(cols, keyMap, lines[i], delimiter)>> \o ImportRowsFrom(cols, keyMap, lines, i + 1, delimiter)

\* the rejection test of parseImport letting a lone header line through
ImportRejectedNever(text) == Len(Split(Trim(text), "\n")) < 1
ImportLines(text) == Split(Trim(text), "\n")
\* parseImport rejects the text
ImportRejected(text) == Len(ImportLines(text)) < 2
\* newData of parseImport
ImportData(cols, text, delimiter) ==
  LET lines == ImportLines(text)
  IN  ImportRowsFrom(cols, KeyMap(cols, splitCSV(lines[1], delimiter)), lines, 2, delimiter)

\* the text the export handler builds: header, line break, rows
ExportCell(item, k, delimiter) ==
  LET val == IF k = "length" THEN Get(item, "length_display") ELSE Get(item, k)
  IN  escapeCSV(IF Truthy(val) THEN StringOf(val) ELSE <<>>, delimiter)
ExportContent(cols, data, selectedKeys, delimiter) ==
  LET header == Join([i \in 1..Len(selectedKeys) |-> escapeCSV(FindByKey(cols, selectedKeys[i])[1].label, delimiter)], delimiter)
      rows == Join([r \in 1..Len(data) |->
                      Join([i \in 1..Len(selectedKeys) |-> ExportCell(data[r], selectedKeys[i], delimiter)], delimiter)],
                   <<"\n">>)
  IN  header \o <<"\n">> \o rows

(***************************************************************************)
(* The state of the page.                                                  *)
(***************************************************************************)
VARIABLES
  audioData,           \* let audioData: the in-memory record set
  columns,             \* let columns: the column catalog
  currentSort,         \* let currentSort = {key, asc}; key "null" for null
  activeFilters,       \* let activeFilters: column key -> rule list
  visibleData,         \* let visibleData
  pendingFilters,      \* let pendingFilters: the rule list edited in the popup
  activeFilterColumn,  \* let activeFilterColumn: the key of the popup's column, "null" for null
  loaded,              \* the DOMContentLoaded handler has run (the handlers are installed)
  popupShown,          \* #filter-popup has class show
  customizeActive,     \* #modal-customize has class active
  exportActive,        \* #modal-export has class active
  importActive,        \* #modal-import has class active
  dragList,            \* #column-list-container: the items [key, checked] in order
  drags,               \* drops made since the customize dialog opened
  exportList,          \* #export-column-list: the items [key, checked] in order
  exportTextarea,      \* #export-textarea: [shown, value]
  countDisplay,        \* #count-display: the number it shows
  tableHead,           \* the rendered header: [key, cls] per visible column
  tableRows,           \* the rendered body: the items it shows, in order
  pendingReads,        \* the FileReaders in flight: [text, delimiter] each
  filtered,            \* visibleData as audioData.filter left it, before sortData
  scanned,             \* the audio files os.walk offered to the generator that wrote the page
  last                 \* the last handler run: its name, inputs, calls and outputs

vars == <<audioData, columns, currentSort, activeFilters, visibleData, pendingFilters,
          activeFilterColumn, loaded, popupShown, customizeActive, exportActive, importActive,
          dragList, drags, exportList, exportTextarea, countDisplay, tableHead, tableRows,
          pendingReads, filtered, scanned, last>>

\* the variables the script declares with let, and the groups handlers leave alone
dataVars == <<audioData, visibleData, filtered, countDisplay, tableHead, tableRows>>
filterVars == <<activeFilters, pendingFilters, activeFilterColumn>>
modalVars == <<customizeActive, exportActive, importActive>>
listVars == <<dragList, drags, exportList>>

NoFilters == [k \in {} |-> <<>>]
NoSort == [key |-> "null", asc |-> TRUE]

\* what a handler leaves in `last`
Last(action, calls, alert, count, download, text, delimiter) ==
  [action |-> action, calls |-> calls, alert |-> alert, count |-> count,
   download |-> download, text |-> text, delimiter |-> delimiter]
Handled(action, calls) == Last(action, calls, "", 0, <<>>, <<>>, <<>>)

AnyModalActive == customizeActive \/ exportActive \/ importActive
\* .modal is a fixed full-page layer above the page and the popup: while one is
\* active the pointer reaches nothing beneath it
PageReachable == loaded /\ ~AnyModalActive

VisibleKeys(cols) == SelectSeq(cols, LAMBDA c : c.visible)

\* the header renderTable builds
RenderHead(cols, sort) ==
  LET vis == VisibleKeys(cols)
  IN  [i \in 1..Len(vis) |->
         [key |-> vis[i].key,
          cls |-> IF sort.key = vis[i].key THEN (IF sort.asc THEN "asc" ELSE "desc") ELSE ""]]

\* renderTable()
renderTable(cols, sort, vis) ==
  /\ tableHead' = RenderHead(cols, sort)
  /\ tableRows' = vis

\* processData(): filter, sortData, renderTable, count
processData(data, filters, sort, cols) ==
  /\ filtered' = FilterData(data, filters)
  /\ visibleData' \in SortOutcomes(filtered', sort)
  /\ renderTable(cols, sort, visibleData')
  /\ countDisplay' = Len(visibleData')

ProcessDataCalls == <<"processData", "sortData", "renderTable">>

\* the state before the page has loaded, for a record list, filters and a sort state
InitState(data, filters, sort) ==
  /\ audioData = data
  /\ columns = DefaultColumns
  /\ currentSort = sort
  /\ activeFilters = filters
  /\ visibleData = <<>>
  /\ pendingFilters = <<>>
  /\ activeFilterColumn = "null"
  /\ loaded = FALSE
  /\ popupShown = FALSE
  /\ customizeActive = FALSE
  /\ exportActive = FALSE
  /\ importActive = FALSE
  /\ dragList = <<>>
  /\ drags = 0
  /\ exportList = <<>>
  /\ exportTextarea = [shown |-> FALSE, value |-> <<>>]
  /\ countDisplay = 0
  /\ tableHead = <<>>
  /\ tableRows = <<>>
  /\ pendingReads = <<>>
  /\ filtered = <<>>
  /\ last = Handled("script", <<>>)

\* the state once the script has been evaluated, for the embedded record list
InitPage(data) == InitState(data, NoFilters, NoSort)

\* document DOMContentLoaded
DOMContentLoaded ==
  /\ ~loaded
  /\ loaded' = TRUE
  /\ processData(audioData, activeFilters, currentSort, columns)
  /\ last' = Handled("DOMContentLoaded", ProcessDataCalls)
  /\ UNCHANGED <<scanned, audioData, columns, currentSort, filterVars, popupShown, modalVars, listVars,
                 exportTextarea, pendingReads>>

\* handleSort without its call of processData
handleSortNoRefresh(key) ==
  /\ PageReachable
  /\ \E i \in 1..Len(tableHead) : tableHead[i].key = key
  /\ currentSort' = IF currentSort.key = key THEN [currentSort EXCEPT !.asc = ~currentSort.asc]
                    ELSE [key |-> key, asc |-> TRUE]
  /\ popupShown' = FALSE
  /\ last' = Last("handleSort", <<>>, "", 0, <<>>, KeyText[key], <<>>)
  /\ UNCHANGED <<scanned, dataVars, columns, filterVars, modalVars, listVars, exportTextarea, pendingReads, loaded>>

\* handleSort keeping the direction when the key changes
handleSortKeepDirection(key) ==
  /\ PageReachable
  /\ \E i \in 1..Len(tableHead) : tableHead[i].key = key
  /\ currentSort' = IF currentSort.key = key THEN [currentSort EXCEPT !.asc = ~currentSort.asc]
                    ELSE [key |-> key, asc |-> currentSort.asc]
  /\ processData(audioData, activeFilters, currentSort', columns)
  /\ popupShown' = FALSE
  /\ last' = Last("handleSort", ProcessDataCalls, "", 0, <<>>, KeyText[key], <<>>)
  /\ UNCHANGED <<scanned, audioData, columns, filterVars, modalVars, listVars, exportTextarea, pendingReads, loaded>>

\* th.onclick = () => handleSort(col.key); the click then reaches the global handler
handleSort(key) ==
  /\ PageReachable
  /\ \E i \in 1..Len(tableHead) : tableHead[i].key = key
  /\ currentSort' = IF currentSort.key = key THEN [currentSort EXCEPT !.asc = ~currentSort.asc]
                    ELSE [key |-> key, asc |-> TRUE]
  /\ processData(audioData, activeFilters, currentSort', columns)
  /\ popupShown' = FALSE
  /\ last' = Last("handleSort", ProcessDataCalls, "", 0, <<>>, KeyText[key], <<>>)
  /\ UNCHANGED <<scanned, audioData, columns, filterVars, modalVars, listVars, exportTextarea, pendingReads, loaded>>

(***************************************************************************)
(* The filter popup.                                                       *)
(***************************************************************************)
ColumnType(cols, key) == FindByKey(cols, key)[1].type
NumOps == {"eq", "gt", "lt", "between"}
TextOps == {"contains", "not_contains", "starts", "ends", "eq"}

\* what an <input type="number"> hands out: a number literal, or "" for anything else
IsHtmlNumber(s) == Len(s) > 0 /\ IsSignedDecimal(s) /\ s[1] # "+" /\ s[Len(s)] # "."

\* the rules the popup can build for a column of the type: the operator list is set by
\* openFilterPopup, the first input is a number input on a numeric column, the second
\* always, and the text options are hidden and cleared on a numeric column
PopupOffers(rule, type) ==
  LET isNum == type \in {"number", "duration"}
  IN  /\ rule.operator \in (IF isNum THEN NumOps ELSE TextOps)
      /\ isNum => /\ ~rule.matchCase /\ ~rule.wholeWord /\ ~rule.useRegex
                  /\ (Len(rule.value) = 0 \/ IsHtmlNumber(rule.value))
      /\ Len(rule.value2) = 0 \/ IsHtmlNumber(rule.value2)

PopupReachable == loaded /\ popupShown /\ ~AnyModalActive

\* filterSpan.onclick: openFilterPopup(col, filterSpan); the click is not propagated
openFilterPopup(key) ==
  /\ PageReachable
  /\ key # "cover"
  /\ \E i \in 1..Len(tableHead) : tableHead[i].key = key
  /\ activeFilterColumn' = key
  /\ pendingFilters' = IF key \in DOMAIN activeFilters THEN activeFilters[key] ELSE <<>>
  /\ popupShown' = TRUE
  /\ last' = Handled("openFilterPopup", <<"renderPendingFilters">>)
  /\ UNCHANGED <<scanned, dataVars, columns, currentSort, activeFilters, modalVars, listVars,
                 exportTextarea, pendingReads, loaded>>

\* btn-add-filter (and Enter in either input): addRule
addRule(rule) ==
  /\ PopupReachable
  /\ PopupOffers(rule, ColumnType(columns, activeFilterColumn))
  /\ Len(pendingFilters) < MaxRules
  /\ IF Len(Trim(rule.value)) = 0
     THEN /\ pendingFilters' = pendingFilters
          /\ last' = Handled("addRule", <<>>)
     ELSE /\ pendingFilters' = Append(pendingFilters, rule)
          /\ last' = Handled("addRule", <<"renderPendingFilters">>)
  /\ UNCHANGED <<scanned, dataVars, columns, currentSort, activeFilters, activeFilterColumn, popupShown,
                 modalVars, listVars, exportTextarea, pendingReads, loaded>>

\* the button of a chip: pendingFilters.splice(idx, 1)
removeRule(idx) ==
  /\ PopupReachable
  /\ idx \in 1..Len(pendingFilters)
  /\ pendingFilters' = Sub(pendingFilters, 1, idx - 1) \o Sub(pendingFilters, idx + 1, Len(pendingFilters))
  /\ last' = Handled("removeRule", <<"renderPendingFilters">>)
  /\ UNCHANGED <<scanned, dataVars, columns, currentSort, activeFilters, activeFilterColumn, popupShown,
                 modalVars, listVars, exportTextarea, pendingReads, loaded>>

\* btn-clear-column
clearColumn ==
  /\ PopupReachable
  /\ pendingFilters' = <<>>
  /\ last' = Handled("clearColumn", <<"renderPendingFilters">>)
  /\ UNCHANGED <<scanned, dataVars, columns, currentSort, activeFilters, activeFilterColumn, popupShown,
                 modalVars, listVars, exportTextarea, pendingReads, loaded>>

\* activeFilters after btn-apply-filters
AppliedFilters(filters, key, pending) ==
  IF key = "null" THEN filters
  ELSE IF Len(pending) > 0
       THEN [k \in DOMAIN filters \cup {key} |-> IF k = key THEN pending ELSE filters[k]]
  ELSE [k \in DOMAIN filters \ {key} |-> filters[k]]

\* btn-close-filter storing the pending list on its way out
closeFilterStoring ==
  /\ PopupReachable
  /\ popupShown' = FALSE
  /\ activeFilters' = AppliedFilters(activeFilters, activeFilterColumn, pendingFilters)
  /\ last' = Handled("closeFilter", <<>>)
  /\ UNCHANGED <<scanned, dataVars, columns, currentSort, pendingFilters, activeFilterColumn, modalVars,
                 listVars, exportTextarea, pendingReads, loaded>>

\* btn-close-filter
closeFilter ==
  /\ PopupReachable
  /\ popupShown' = FALSE
  /\ last' = Handled("closeFilter", <<>>)
  /\ UNCHANGED <<scanned, dataVars, columns, currentSort, filterVars, modalVars, listVars,
                 exportTextarea, pendingReads, loaded>>

\* the global click handler, for a click on the page that hits no control
clickOutside ==
  /\ PageReachable
  /\ popupShown
  /\ popupShown' = FALSE
  /\ last' = Handled("clickOutside", <<>>)
  /\ UNCHANGED <<scanned, dataVars, columns, currentSort, filterVars, modalVars, listVars,
                 exportTextarea, pendingReads, loaded>>

\* btn-apply-filters without the refresh: the rules are stored, the table is left as it was
applyFiltersNoRefresh ==
  /\ PopupReachable
  /\ activeFilters' = AppliedFilters(activeFilters, activeFilterColumn, pendingFilters)
  /\ popupShown' = FALSE
  /\ last' = Handled("applyFilters", <<>>)
  /\ UNCHANGED <<scanned, dataVars, columns, currentSort, pendingFilters, activeFilterColumn, modalVars,
                 listVars, exportTextarea, pendingReads, loaded>>

\* btn-apply-filters
applyFilters ==
  /\ PopupReachable
  /\ activeFilters' = AppliedFilters(activeFilters, activeFilterColumn, pendingFilters)
  /\ popupShown' = FALSE
  /\ processData(audioData, activeFilters', currentSort, columns)
  /\ last' = Handled("applyFilters", ProcessDataCalls)
  /\ UNCHANGED <<scanned, audioData, columns, currentSort, pendingFilters, activeFilterColumn, modalVars,
                 listVars, exportTextarea, pendingReads, loaded>>

(***************************************************************************)
(* The customize dialog.                                                   *)
(***************************************************************************)
ListOf(cols) == [i \in 1..Len(cols) |-> [key |-> cols[i].key, checked |-> cols[i].visible]]

\* btn-customize: renderDragList, show the dialog
openCustomize ==
  /\ PageReachable
  /\ dragList' = ListOf(columns)
  /\ drags' = 0
  /\ customizeActive' = TRUE
  /\ popupShown' = FALSE
  /\ last' = Handled("openCustomize", <<"renderDragList">>)
  /\ UNCHANGED <<scanned, dataVars, columns, currentSort, filterVars, exportActive, importActive,
                 exportList, exportTextarea, pendingReads, loaded>>

\* a click on a checkbox (or its label) of the drag list
toggleColumn(i) ==
  /\ loaded /\ customizeActive
  /\ i \in 1..Len(dragList)
  /\ dragList' = [dragList EXCEPT ![i].checked = ~dragList[i].checked]
  /\ last' = Handled("toggleColumn", <<>>)
  /\ UNCHANGED <<scanned, dataVars, columns, currentSort, filterVars, popupShown, modalVars, drags,
                 exportList, exportTextarea, pendingReads, loaded>>

\* the list with item from moved to where item to was
MoveItem(list, from, to) ==
  LET without == Sub(list, 1, from - 1) \o Sub(list, from + 1, Len(list))
  IN  Sub(without, 1, to - 1) \o <<list[from]>> \o Sub(without, to, Len(without))

\* handleDrop: the dragged item goes after the target when it came from before it,
\* else before it
handleDrop(from, to) ==
  /\ loaded /\ customizeActive
  /\ from \in 1..Len(dragList) /\ to \in 1..Len(dragList)
  /\ drags < MaxDrags
  /\ drags' = drags + 1
  /\ dragList' = IF from = to THEN dragList ELSE MoveItem(dragList, from, to)
  /\ last' = Handled("handleDrop", <<>>)
  /\ UNCHANGED <<scanned, dataVars, columns, currentSort, filterVars, popupShown, modalVars,
                 exportList, exportTextarea, pendingReads, loaded>>

\* btn-close-modal storing the dialog's list as btn-save-modal does
cancelCustomizeApplying ==
  /\ loaded /\ customizeActive
  /\ customizeActive' = FALSE
  /\ columns' = [i \in 1..Len(dragList) |->
                   [FindByKey(columns, dragList[i].key)[1] EXCEPT !.visible = dragList[i].checked]]
  /\ last' = Handled("cancelCustomize", <<>>)
  /\ UNCHANGED <<scanned, dataVars, currentSort, filterVars, popupShown, exportActive, importActive,
                 listVars, exportTextarea, pendingReads, loaded>>

\* btn-close-modal (Cancel)
cancelCustomize ==
  /\ loaded /\ customizeActive
  /\ customizeActive' = FALSE
  /\ last' = Handled("cancelCustomize", <<>>)
  /\ UNCHANGED <<scanned, dataVars, columns, currentSort, filterVars, popupShown, exportActive, importActive,
                 listVars, exportTextarea, pendingReads, loaded>>

\* newColumns built from the ticked items only
SavedColumnsTicked(cols, list) ==
  LET found == SelectSeq(list, LAMBDA it : FindByKey(cols, it.key) # <<>> /\ it.checked)
  IN  [i \in 1..Len(found) |-> [FindByKey(cols, found[i].key)[1] EXCEPT !.visible = found[i].checked]]

\* newColumns of btn-save-modal: the columns found for the items, with the boxes' state
SavedColumns(cols, list) ==
  LET found == SelectSeq(list, LAMBDA it : FindByKey(cols, it.key) # <<>>)
  IN  [i \in 1..Len(found) |-> [FindByKey(cols, found[i].key)[1] EXCEPT !.visible = found[i].checked]]

\* btn-save-modal dropping the rules and the sort of the columns it hides, and refreshing
saveCustomizePruning ==
  /\ loaded /\ customizeActive
  /\ columns' = SavedColumns(columns, dragList)
  /\ LET shown == {columns'[i].key : i \in {j \in 1..Len(columns') : columns'[j].visible}}
     IN  /\ activeFilters' = [k \in DOMAIN activeFilters \cap shown |-> activeFilters[k]]
         /\ currentSort' = IF currentSort.key \in shown THEN currentSort ELSE NoSort
  /\ processData(audioData, activeFilters', currentSort', columns')
  /\ customizeActive' = FALSE
  /\ last' = Handled("saveCustomize", <<"renderTable">>)
  /\ UNCHANGED <<scanned, audioData, pendingFilters, activeFilterColumn, popupShown,
                 exportActive, importActive, listVars, exportTextarea, pendingReads, loaded>>

\* btn-save-modal (Apply): replace the catalog, renderTable, hide the dialog
saveCustomize ==
  /\ loaded /\ customizeActive
  /\ columns' = SavedColumns(columns, dragList)
  /\ renderTable(columns', currentSort, visibleData)
  /\ customizeActive' = FALSE
  /\ last' = Handled("saveCustomize", <<"renderTable">>)
  /\ UNCHANGED <<scanned, audioData, visibleData, filtered, countDisplay, currentSort, filterVars, popupShown,
                 exportActive, importActive, listVars, exportTextarea, pendingReads, loaded>>

(***************************************************************************)
(* The export dialog.                                                      *)
(***************************************************************************)
\* btn-export: fill the column picker from the catalog, hide the preview, show the dialog
openExport ==
  /\ PageReachable
  /\ exportList' = ListOf(columns)
  /\ exportTextarea' = [exportTextarea EXCEPT !.shown = FALSE]
  /\ exportActive' = TRUE
  /\ popupShown' = FALSE
  /\ last' = Handled("openExport", <<>>)
  /\ UNCHANGED <<scanned, dataVars, columns, currentSort, filterVars, customizeActive, importActive,
                 dragList, drags, pendingReads, loaded>>

\* a click on a box of the column picker that also sets the column's visible flag
toggleExportLive(i) ==
  /\ loaded /\ exportActive
  /\ i \in 1..Len(exportList)
  /\ exportList' = [exportList EXCEPT ![i].checked = ~exportList[i].checked]
  /\ columns' = [c \in 1..Len(columns) |->
                   IF columns[c].key = exportList[i].key
                   THEN [columns[c] EXCEPT !.visible = ~exportList[i].checked] ELSE columns[c]]
  /\ last' = Handled("toggleExport", <<>>)
  /\ UNCHANGED <<scanned, dataVars, currentSort, filterVars, popupShown, modalVars,
                 dragList, drags, exportTextarea, pendingReads, loaded>>

\* a click on a checkbox (or its label) of the column picker
toggleExport(i) ==
  /\ loaded /\ exportActive
  /\ i \in 1..Len(exportList)
  /\ exportList' = [exportList EXCEPT ![i].checked = ~exportList[i].checked]
  /\ last' = Handled("toggleExport", <<>>)
  /\ UNCHANGED <<scanned, dataVars, columns, currentSort, filterVars, popupShown, modalVars,
                 dragList, drags, exportTextarea, pendingReads, loaded>>

\* btn-export-select-all / btn-export-deselect-all
exportSelect(checked) ==
  /\ loaded /\ exportActive
  /\ exportList' = [i \in 1..Len(exportList) |-> [exportList[i] EXCEPT !.checked = checked]]
  /\ last' = Handled(IF checked THEN "exportSelectAll" ELSE "exportDeselectAll", <<>>)
  /\ UNCHANGED <<scanned, dataVars, columns, currentSort, filterVars, popupShown, modalVars,
                 dragList, drags, exportTextarea, pendingReads, loaded>>

\* btn-close-export
closeExport ==
  /\ loaded /\ exportActive
  /\ exportActive' = FALSE
  /\ last' = Handled("closeExport", <<>>)
  /\ UNCHANGED <<scanned, dataVars, columns, currentSort, filterVars, popupShown, customizeActive,
                 importActive, listVars, exportTextarea, pendingReads, loaded>>

\* selectedKeys: the values of the checked boxes, in list order
SelectedKeys(list) ==
  LET on == SelectSeq(list, LAMBDA it : it.checked)
  IN  [i \in 1..Len(on) |-> on[i].key]

ExportFormats == {"csv", "txt", "clipboard"}

\* btn-perform-export without the test for an empty selection
performExportUnchecked(format, option) ==
  /\ loaded /\ exportActive
  /\ LET delimiter == DelimiterOf(option)
         selectedKeys == SelectedKeys(exportList)
         content == ExportContent(columns, visibleData, selectedKeys, delimiter)
     IN  IF format = "clipboard"
         THEN /\ exportTextarea' = [shown |-> TRUE, value |-> content]
              /\ last' = Last("performExport", <<"escapeCSV">>, "", 0, <<>>, content, delimiter)
              /\ UNCHANGED exportActive
         ELSE /\ exportActive' = FALSE
              /\ last' = Last("performExport", <<"escapeCSV">>, "", 0,
                              <<[name |-> format, bom |-> TRUE, content |-> content]>>, content, delimiter)
              /\ UNCHANGED exportTextarea
  /\ UNCHANGED <<scanned, dataVars, columns, currentSort, filterVars, popupShown, customizeActive,
                 importActive, listVars, pendingReads, loaded>>

\* btn-perform-export
performExport(format, option) ==
  /\ loaded /\ exportActive
  /\ LET delimiter == DelimiterOf(option)
         selectedKeys == SelectedKeys(exportList)
         content == ExportContent(columns, visibleData, selectedKeys, delimiter)
     IN  IF Len(selectedKeys) = 0
         THEN /\ last' = Last("performExport", <<>>, "Select at least one column.", 0, <<>>, <<>>, delimiter)
              /\ UNCHANGED <<exportTextarea, exportActive>>
         ELSE IF format = "clipboard"
         THEN /\ exportTextarea' = [shown |-> TRUE, value |-> content]
              /\ last' = Last("performExport", <<"escapeCSV">>, "", 0, <<>>, content, delimiter)
              /\ UNCHANGED exportActive
         ELSE /\ exportActive' = FALSE
              /\ last' = Last("performExport", <<"escapeCSV">>, "", 0,
                              <<[name |-> format, bom |-> TRUE, content |-> content]>>, content, delimiter)
              /\ UNCHANGED exportTextarea
  /\ UNCHANGED <<scanned, dataVars, columns, currentSort, filterVars, popupShown, customizeActive,
                 importActive, listVars, pendingReads, loaded>>

(***************************************************************************)
(* The import dialog.                                                      *)
(***************************************************************************)
\* btn-import
openImport ==
  /\ PageReachable
  /\ importActive' = TRUE
  /\ popupShown' = FALSE
  /\ last' = Handled("openImport", <<>>)
  /\ UNCHANGED <<scanned, dataVars, columns, currentSort, filterVars, customizeActive, exportActive,
                 listVars, exportTextarea, pendingReads, loaded>>

\* btn-close-import
closeImport ==
  /\ loaded /\ importActive
  /\ importActive' = FALSE
  /\ last' = Handled("closeImport", <<>>)
  /\ UNCHANGED <<scanned, dataVars, columns, currentSort, filterVars, popupShown, customizeActive,
                 exportActive, listVars, exportTextarea, pendingReads, loaded>>

\* parseImport appending the parsed records to the record set instead of replacing it
parseImportMerging(action, text, delimiter) ==
  IF ImportRejected(text)
  THEN /\ last' = Last(action, <<"parseImport">>, "Invalid data format.", 0, <<>>, text, delimiter)
       /\ UNCHANGED <<dataVars, importActive>>
  ELSE /\ audioData' = audioData \o ImportData(columns, text, delimiter)
       /\ processData(audioData', activeFilters, currentSort, columns)
       /\ importActive' = FALSE
       /\ last' = Last(action, <<"parseImport">> \o ProcessDataCalls, "Imported items.",
                       Len(ImportData(columns, text, delimiter)), <<>>, text, delimiter)

\* parseImport(text, delimiter, modal), called by the handler named `action`
parseImport(action, text, delimiter) ==
  IF ImportRejected(text)
  THEN /\ last' = Last(action, <<"parseImport">>, "Invalid data format.", 0, <<>>, text, delimiter)
       /\ UNCHANGED <<dataVars, importActive>>
  ELSE /\ audioData' = ImportData(columns, text, delimiter)
       /\ processData(audioData', activeFilters, currentSort, columns)
       /\ importActive' = FALSE
       /\ last' = Last(action, <<"parseImport">> \o ProcessDataCalls, "Imported items.",
                       Len(audioData'), <<>>, text, delimiter)

\* btn-perform-import parsing the chosen file at once, as if the read were synchronous
performImportFileEager(text, option) ==
  /\ loaded /\ importActive
  /\ Len(pendingReads) < MaxReads
  /\ parseImport("performImportFile", text, DelimiterOf(option))
  /\ UNCHANGED <<scanned, columns, currentSort, filterVars, popupShown, customizeActive, exportActive,
                 listVars, exportTextarea, pendingReads, loaded>>

\* btn-perform-import with a file chosen: start reading it
performImportFile(text, option) ==
  /\ loaded /\ importActive
  /\ Len(pendingReads) < MaxReads
  /\ pendingReads' = Append(pendingReads, [text |-> text, delimiter |-> DelimiterOf(option)])
  /\ last' = Last("performImportFile", <<"readAsText">>, "", 0, <<>>, text, DelimiterOf(option))
  /\ UNCHANGED <<scanned, dataVars, columns, currentSort, filterVars, popupShown, modalVars, listVars,
                 exportTextarea, loaded>>

\* btn-perform-import with no file chosen: the pasted text, or a complaint
performImportPaste(text, option) ==
  /\ loaded /\ importActive
  /\ IF Len(Trim(text)) # 0
     THEN parseImport("performImportPaste", text, DelimiterOf(option))
     ELSE /\ last' = Last("performImportPaste", <<>>, "Please select a file or paste data.", 0,
                          <<>>, text, DelimiterOf(option))
          /\ UNCHANGED <<dataVars, importActive>>
  /\ UNCHANGED <<scanned, columns, currentSort, filterVars, popupShown, customizeActive, exportActive,
                 listVars, exportTextarea, pendingReads, loaded>>

\* reader.onload of the i-th read in flight
readerOnload(i) ==
  /\ loaded
  /\ i \in 1..Len(pendingReads)
  /\ parseImport("readerOnload", pendingReads[i].text, pendingReads[i].delimiter)
  /\ pendingReads' = Sub(pendingReads, 1, i - 1) \o Sub(pendingReads, i + 1, Len(pendingReads))
  /\ UNCHANGED <<scanned, columns, currentSort, filterVars, popupShown, customizeActive, exportActive,
                 listVars, exportTextarea, loaded>>

(***************************************************************************)
(* Inputs of the model: the scanned folders, the rules typed into the      *)
(* popup, the texts imported.                                              *)
(***************************************************************************)
NoTags == [k \in {} |-> <<>>]
AudioFile(path, audio, tags, length, folder) ==
  [path |-> path, audio |-> audio, tags |-> tags,
   info |-> [length |-> length, bitrate |-> 320000, sample_rate |-> 44100], folder |-> folder]

\* "Love Story", 1990, 61.5 s, with a cover beside it
FileLove == AudioFile(<<"/", "m", "/", "a", ".", "m", "p", "3">>, "ok",
                      [title |-> <<"L", "o", "v", "e", " ", "S", "t", "o", "r", "y">>, artist |-> <<"A", "n", "n">>, date |-> <<"1", "9", "9", "0">>, tracknumber |-> <<"2", "/", "9">>],
                      123, {<<"c", "o", "v", "e", "r", ".", "p", "n", "g">>})
\* "Loveless", 1999, 3661 s
FileLoveless == AudioFile(<<"/", "m", "/", "b", ".", "f", "l", "a", "c">>, "ok",
                          [title |-> <<"L", "o", "v", "e", "l", "e", "s", "s">>, artist |-> <<"b", "o", "b">>, date |-> <<"1", "9", "9", "9">>], 7322, {})
\* no tags at all
FileBare == AudioFile(<<"/", "m", "/", "c", ".", "o", "g", "g">>, "ok", NoTags, 0, {})
\* the tag library raises on it
FileBroken == AudioFile(<<"/", "m", "/", "d", ".", "w", "a", "v">>, "raise", NoTags, 0, {})
\* the tag library recognises nothing in it
FileUnknown == AudioFile(<<"/", "m", "/", "e", ".", "a", "a", "c">>, "none", NoTags, 0, {})

RuleLove == Rule("contains", <<"l", "o", "v", "e">>, <<>>, FALSE, FALSE, FALSE)
RuleBlank == Rule("contains", <<" ">>, <<>>, FALSE, FALSE, FALSE)

TextOk == <<"T", "i", "t", "l", "e", ",", "Y", "e", "a", "r", ",", "L", "e", "n", "g", "t", "h", "\n", "S", "o", "n", "g", ",", "2", "0", "0", "1", ",", "1", ":", "0", "1", "\n", "\n", "O", "t", "h", "e", "r", ",", "x", ",", "9", "0">>
TextHeaderOnly == <<"T", "i", "t", "l", "e", ",", "Y", "e", "a", "r", "\n", "\n">>

(***************************************************************************)
(* Spec: the page as the user drives it - sorting, the filter popup, the   *)
(* customize dialog and the import dialog.                                 *)
(***************************************************************************)
UiScans == {<<FileLove, FileLoveless, FileUnknown>>}
UiSortKeys == {"year"}
UiFilterKeys == {"track_name"}
UiRules == {RuleLove, RuleBlank}
UiTexts == {TextOk, TextHeaderOnly}
UiPastes == {TextOk, TextHeaderOnly, <<" ">>}
\* the box the model ticks in the customize dialog: Length
UiBoxes == {16}

Init == \E scan \in UiScans : InitPage(generate_html(collect_metadata(scan))) /\ scanned = scan

Next ==
  \/ DOMContentLoaded
  \/ \E key \in UiSortKeys : handleSort(key)
  \/ \E key \in UiFilterKeys : openFilterPopup(key)
  \/ \E rule \in UiRules : addRule(rule)
  \/ \E idx \in 1..Len(pendingFilters) : removeRule(idx)
  \/ clearColumn
  \/ closeFilter
  \/ clickOutside
  \/ applyFilters
  \/ openCustomize
  \/ \E i \in UiBoxes : toggleColumn(i)
  \/ cancelCustomize
  \/ saveCustomize
  \/ openImport
  \/ closeImport
  \/ \E text \in UiTexts : performImportFile(text, Comma)
  \/ \E text \in UiPastes : performImportPaste(text, Comma)
  \/ \E i \in 1..Len(pendingReads) : readerOnload(i)

Spec == Init /\ [][Next]_vars

(***************************************************************************)
(* Properties of the page (checked under Spec).                            *)
(***************************************************************************)
\* the lines of a text that hold more than white space
NonBlankLines(text) == {i \in 1..Len(Split(text, "\n")) : Len(Trim(Split(text, "\n")[i])) > 0}
ImportSucceeded(l) == l.action \in {"performImportPaste", "readerOnload"} /\ l.alert = "Imported items."
\* the visible set, the rendered rows and the count are what a refresh leaves
Refreshed ==
  /\ visibleData \in SortOutcomes(SelectSeq(audioData, LAMBDA item : ItemPasses(item, activeFilters, DOMAIN activeFilters)), currentSort)
  /\ tableRows = visibleData
  /\ countDisplay = Len(visibleData)

\* C4: a successful import replaces the whole record set by the records parsed from
\* the data lines (one per non-blank data line, none of the old ones kept), runs the
\* refresh with the filters and the sort state that were active, which it leaves as
\* they were, and reports the size of the new record set.
C4_ImportReplaces ==
  [][ImportSucceeded(last') =>
        /\ audioData' = ImportData(columns, last'.text, last'.delimiter)
        /\ Len(audioData') = Cardinality(NonBlankLines(last'.text)) - 1
        /\ \A i \in 1..Len(audioData') : "file_path" \notin DOMAIN audioData'[i]
        /\ UNCHANGED <<activeFilters, currentSort, columns>>
        /\ Refreshed'
        /\ last'.count = Len(audioData')
        /\ "processData" \in Range(last'.calls)]_vars

\* an import succeeded while a rule and a sort key were active and hid one of its records
C4_Witness ==
  /\ ImportSucceeded(last)
  /\ last.count = 2
  /\ DOMAIN activeFilters # {}
  /\ currentSort.key # "null"
  /\ Len(visibleData) < Len(audioData)

\* C5: an import of a text with fewer than two non-blank lines is answered with an
\* error message and leaves the record set, the visible set, the filters, the sort
\* state and the catalog as they were.
C5_ImportRejected ==
  [][(last'.action \in {"performImportPaste", "readerOnload"} /\ Cardinality(NonBlankLines(last'.text)) < 2) =>
        /\ last'.alert \in {"Invalid data format.", "Please select a file or paste data."}
        /\ UNCHANGED <<audioData, visibleData, activeFilters, currentSort, columns, tableRows, countDisplay>>]_vars

\* a file holding a header line and blank lines was read and refused
C5_Witness ==
  /\ last.action = "readerOnload"
  /\ last.text = TextHeaderOnly
  /\ last.alert = "Invalid data format."

C8_Exclusive ==
  [][/\ pendingReads # <<>> =>
          last'.action \notin {"handleSort", "applyFilters", "saveCustomize", "performImportFile", "performImportPaste"}
     /\ popupShown =>
          last'.action \notin {"handleSort", "saveCustomize", "performImportFile", "performImportPaste", "readerOnload"}
     /\ customizeActive =>
          last'.action \notin {"handleSort", "applyFilters", "performImportFile", "performImportPaste", "readerOnload"}
     /\ importActive =>
          last'.action \notin {"handleSort", "applyFilters", "saveCustomize"}]_vars

\* C9: starting a file import changes neither the record set nor the visible set and
\* applies neither filters nor sort; the record set changes only in the completion
\* callback of a read (or in the import of pasted text, which has no read).
C9_ReadDeferred ==
  [][/\ last'.action = "performImportFile" =>
          /\ UNCHANGED <<audioData, visibleData, filtered, tableRows, tableHead, countDisplay,
                         activeFilters, currentSort, columns>>
          /\ "processData" \notin Range(last'.calls)
          /\ pendingReads' # <<>>
     /\ audioData' # audioData => last'.action \in {"readerOnload", "performImportPaste"}]_vars

\* a read of an importable file is in flight and the records are still those of the scan
C9_Witness ==
  /\ last.action = "performImportFile"
  /\ \E i \in 1..Len(pendingReads) : ~ImportRejected(pendingReads[i].text)
  /\ \A i \in 1..Len(audioData) : "file_path" \in DOMAIN audioData[i]

TextKeys == {"artist", "album_artist", "track_name", "album_name", "genre", "composer", "lyricist",
             "language", "comment", "copyright", "publisher", "isrc"}
IntegerKeys == {"year", "track_number", "disc_number", "bpm", "bitrate", "sample_rate", "rating"}

\* C10 as claimed: every record of the record set holds a value of the right type for
\* every declared attribute - a text for filePath, the text attributes and
\* lengthDisplay, a number (never NaN) for the integer attributes and lengthSeconds.
C10_RecordsComplete ==
  \A i \in 1..Len(audioData) :
    /\ \A k \in TextKeys \cup {"file_path", "length_display"} : Get(audioData[i], k).t = "string"
    /\ \A k \in IntegerKeys \cup {"length"} : Get(audioData[i], k).t = "number"

(***************************************************************************)
(* SpecExport: the export dialog over a loaded page.                       *)
(***************************************************************************)
\* the boxes the model ticks in the column picker: Title, Length
ExportBoxes == {2, 16}

NextExport ==
  \/ DOMContentLoaded
  \/ openExport
  \/ \E i \in ExportBoxes : toggleExport(i)
  \/ \E checked \in BOOLEAN : exportSelect(checked)
  \/ closeExport
  \/ \E format \in ExportFormats, option \in {Comma, TabOption} : performExport(format, option)

SpecExport == Init /\ [][NextExport]_vars

\* C6: an export with no column selected reports an error, hands out neither a file
\* nor preview text (the preview keeps what it held), and leaves the dialog, the record
\* set, the visible set, the filters, the sort state and the catalog as they were.
C6_NoColumnsNoExport ==
  [][(last'.action = "performExport" /\ \A i \in 1..Len(exportList) : ~exportList[i].checked) =>
        /\ last'.alert = "Select at least one column."
        /\ last'.download = <<>>
        /\ last'.text = <<>>
        /\ UNCHANGED <<exportTextarea, exportActive, exportList, audioData, visibleData,
                       activeFilters, currentSort, columns, tableRows, countDisplay>>]_vars

\* an export with nothing selected was refused while the preview held an earlier export
C6_Witness ==
  /\ last.action = "performExport"
  /\ last.alert = "Select at least one column."
  /\ SelectedKeys(exportList) = <<>>
  /\ exportTextarea.value # <<>>

(***************************************************************************)
(* SpecRoundTrip: export every column to the preview, paste it into the    *)
(* import dialog.                                                          *)
(***************************************************************************)
\* whole seconds, nothing that needs quoting
FilePlain == AudioFile(<<"/", "m", "/", "p", ".", "m", "p", "3">>, "ok", [title |-> <<"P", "l", "a", "i", "n">>, artist |-> <<"A", "n", "n">>, date |-> <<"2", "0", "0", "1">>], 180, {})
\* a title with the delimiters and a quote in it
FileQuoted == AudioFile(<<"/", "m", "/", "q", ".", "m", "p", "3">>, "ok", [title |-> <<"a", ",", "b", ";", "c", "|", "d", "\"", "e">>, date |-> <<"7">>], 20, {})
RoundTripScans == {<<FilePlain>>, <<FilePlain, FileQuoted>>, <<FileLove, FileLoveless>>, <<FileBare, FileBroken>>, <<>>}

InitRoundTrip ==
  \E scan \in RoundTripScans : InitPage(generate_html(collect_metadata(scan))) /\ scanned = scan

NextRoundTrip ==
  \/ DOMContentLoaded
  \/ openExport
  \/ \E checked \in BOOLEAN : exportSelect(checked)
  \/ \E option \in DelimiterOptions : performExport("clipboard", option)
  \/ closeExport
  \/ openImport
  \/ closeImport
  \/ \E option \in DelimiterOptions : performImportPaste(exportTextarea.value, option)

SpecRoundTrip == InitRoundTrip /\ [][NextRoundTrip]_vars

AllKeys(cols) == [i \in 1..Len(cols) |-> cols[i].key]

\* C1 as claimed: when the text imported with a delimiter is the export of the record
\* set with every column selected and that delimiter, the import yields as many
\* records, with the same numeric, text and duration values record by record.
C1_RoundTrip ==
  [][\A option \in DelimiterOptions :
       (/\ last'.action = "performImportPaste"
        /\ last'.delimiter = DelimiterOf(option)
        /\ visibleData = audioData
        /\ last'.text = ExportContent(columns, visibleData, AllKeys(columns), DelimiterOf(option)))
       => /\ Len(audioData') = Len(audioData)
          /\ \A i \in 1..Len(audioData) : \A k \in TextKeys \cup IntegerKeys \cup {"length"} :
               Get(audioData'[i], k) = Get(audioData[i], k)]_vars

(***************************************************************************)
(* SpecFilter: processData as a function of the record list, the active    *)
(* filters and the sort state.                                             *)
(***************************************************************************)
RuleWord == Rule("contains", <<"L", "o", "v", "e">>, <<>>, TRUE, TRUE, FALSE)
RuleNotLess == Rule("not_contains", <<"l", "e", "s", "s">>, <<>>, FALSE, FALSE, FALSE)
RuleAfter == Rule("gt", <<"1", "9", "8", "9">>, <<>>, FALSE, FALSE, FALSE)
RuleBetween == Rule("between", <<"1", "9", "9", "0">>, <<"1", "9", "9", "8">>, FALSE, FALSE, FALSE)

FilterScans == {<<FileLoveless, FileLove, FileBare, FileBroken>>, <<FileLove, FileUnknown, FileLove>>}
TextRules == {RuleLove, RuleWord, RuleNotLess}
NumRules == {RuleAfter, RuleBetween}
\* the sequences over S of length at most n
SeqsUpTo(S, n) == UNION {[1..k -> S] : k \in 0..n}
\* activeFilters holds a key only while its rule list is non-empty
FiltersOf(titleRules, yearRules) ==
  [key \in (IF titleRules = <<>> THEN {} ELSE {"track_name"}) \cup (IF yearRules = <<>> THEN {} ELSE {"year"})
     |-> IF key = "track_name" THEN titleRules ELSE yearRules]

InitFilter ==
  \E scan \in FilterScans, titleRules \in SeqsUpTo(TextRules, MaxRuleList),
     yearRules \in SeqsUpTo(NumRules, MaxRuleList) :
       /\ InitState(generate_html(collect_metadata(scan)), FiltersOf(titleRules, yearRules), NoSort)
       /\ scanned = scan

NextFilter ==
  \/ DOMContentLoaded
  \/ \E key \in {"year", "track_name"} : handleSort(key)

SpecFilter == InitFilter /\ [][NextFilter]_vars

\* a record satisfies a rule of a column, under the conversions processData applies
Satisfies(item, key, rule) ==
  LET rawVal == Get(item, key)
  IN  checkRule(rule, IF IsNumKey(key) THEN ToNumber(rawVal) ELSE Num(0),
                IF Truthy(rawVal) THEN StringOf(rawVal) ELSE <<>>, IsNumKey(key))
PassesAll(item, filters) ==
  \A key \in DOMAIN filters : \A r \in 1..Len(filters[key]) : Satisfies(item, key, filters[key][r])
\* the same records, each as many times
SameRecords(a, b) ==
  /\ Len(a) = Len(b)
  /\ \A i \in 1..Len(a) :
       Cardinality({j \in 1..Len(a) : a[j] = a[i]}) = Cardinality({j \in 1..Len(b) : b[j] = a[i]})

\* C2: once the page has refreshed, the records handed to the sort are exactly the
\* records of the record set that satisfy every rule of every filtered column, in the
\* order of the record set, and the visible set holds those same records.
C2_VisibleSet ==
  loaded => /\ filtered = SelectSeq(audioData, LAMBDA item : PassesAll(item, activeFilters))
            /\ SameRecords(visibleData, filtered)

\* two filtered columns, one with two rules, let part of the records through and the
\* sort has reordered them
C2_Witness ==
  /\ loaded
  /\ DOMAIN activeFilters = {"track_name", "year"}
  /\ Len(activeFilters["track_name"]) = 2
  /\ Len(visibleData) >= 2 /\ Len(visibleData) < Len(audioData)
  /\ visibleData # filtered

\* C3: filtering the filtered records again with the same filters changes nothing.
C3_FilterIdempotent ==
  loaded => /\ FilterData(filtered, activeFilters) = filtered
            /\ FilterData(visibleData, activeFilters) = visibleData

\* a filter that rejects some records and keeps at least two has been applied
C3_Witness ==
  /\ loaded
  /\ activeFilters # NoFilters
  /\ Len(filtered) >= 2 /\ Len(filtered) < Len(audioData)
  /\ FilterData(audioData, activeFilters) # audioData


(***************************************************************************)
(* SpecScan: the page written for a scanned folder.                        *)
(***************************************************************************)
\* the walks of a folder: every file at most once
ScanFolders ==
  {scan \in SeqsUpTo({FileLove, FileLoveless, FileBroken, FileUnknown}, MaxFiles) :
     \A i, j \in 1..Len(scan) : i # j => scan[i] # scan[j]}

InitScan == \E scan \in ScanFolders : InitPage(generate_html(collect_metadata(scan))) /\ scanned = scan

NextScan ==
  \/ DOMContentLoaded
  \/ \E key \in {"year", "track_name"} : handleSort(key)

SpecScan == InitScan /\ [][NextScan]_vars

\* C11 as claimed: every scanned file the tag library raised on, or recognised nothing
\* in, has a record in the record set, holding its path and the sentinel values.
C11_NeverOmitted ==
  \A i \in 1..Len(scanned) :
    scanned[i].audio \in {"raise", "none"} =>
      \E j \in 1..Len(audioData) :
        /\ Get(audioData[j], "file_path") = Str(scanned[i].path)
        /\ Get(audioData[j], "year") = Int2(0)
        /\ Get(audioData[j], "length") = Int2(0)


(***************************************************************************)
(* SpecSort: sorting scanned and imported records by a column, the Length  *)
(* column shown through the customize dialog.                              *)
(***************************************************************************)
\* Broken and Bare tie on the year, Loveless and Love come in descending year
SortScans == {<<FileLoveless, FileBroken, FileLove, FileBare>>}
\* a Length cell that is no number, among numbers
TextLengthNaN == <<"L", "e", "n", "g", "t", "h", "\n", "6", "\n", "1", "\n", "a", ":", "b", "\n", "5">>
\* Length cells of four segments, which stay texts, among numbers
TextLengthMixed == <<"L", "e", "n", "g", "t", "h", "\n", "5", "\n", "1", "0", "\n", "1", ":", "2", ":", "3", ":", "4", "\n", "9", ":", "9", ":", "9", ":", "9", "\n", "2">>
\* Length cells that are plain seconds: negative, 61, 3661 and zero
TextLengthSigned == <<"L", "e", "n", "g", "t", "h", "\n", "-", "5", "\n", "6", "1", "\n", "3", "6", "6", "1", "\n", "0">>
SortTexts == {TextLengthNaN, TextLengthMixed, TextLengthSigned}
SortKeys == {"year", "length"}

InitSort == \E scan \in SortScans : InitPage(generate_html(collect_metadata(scan))) /\ scanned = scan

NextSort ==
  \/ DOMContentLoaded
  \/ \E key \in SortKeys : handleSort(key)
  \/ openCustomize
  \/ \E i \in UiBoxes : toggleColumn(i)
  \/ saveCustomize
  \/ openImport
  \/ \E text \in SortTexts : performImportPaste(text, Comma)

SpecSort == InitSort /\ [][NextSort]_vars

\* C12: there is one sort state, shown on at most one header; a click on a header
\* makes its column the sort key, ascending when it was not the sort key, with the
\* direction reversed when it was.
C12_SortState ==
  [][last'.action = "handleSort" =>
        /\ \E key \in DOMAIN KeyText :
             /\ last'.text = KeyText[key]
             /\ currentSort'.key = key
             /\ currentSort'.asc = (IF currentSort.key = key THEN ~currentSort.asc ELSE TRUE)
        /\ Cardinality({i \in 1..Len(tableHead') : tableHead'[i].cls # ""}) <= 1]_vars

\* the Length header was clicked twice: the sort is by length, descending
C12_Witness ==
  /\ last.action = "handleSort"
  /\ currentSort = [key |-> "length", asc |-> FALSE]
  /\ \E i \in 1..Len(tableHead) : tableHead[i].cls = "desc"

\* C13 as claimed: with no sort key the visible set is the filter output as it is;
\* with one, two visible records whose keys compare equal stand in the order they
\* have in the record set.
C13_StableSort ==
  loaded =>
    /\ currentSort.key = "null" => visibleData = filtered
    /\ currentSort.key # "null" =>
         \A i, j \in 1..Len(visibleData) :
           (i < j /\ SortCompare(visibleData[i], visibleData[j], currentSort) = 0)
             => IndexOf(audioData, visibleData[i]) < IndexOf(audioData, visibleData[j])

TieFree(data, sort) ==
  \A i, j \in 1..Len(data) : i # j => SortCompare(data[i], data[j], sort) # 0
Reverse(s) == [i \in 1..Len(s) |-> s[Len(s) + 1 - i]]

\* C14 as claimed: when the header of the sort key is clicked and no two records
\* compare equal on it, the visible order becomes the reverse of what it was, and
\* sorting that order again leaves it as it is.
C14_ReverseAndRepeat ==
  [][(/\ last'.action = "handleSort"
      /\ currentSort'.key = currentSort.key
      /\ TieFree(filtered', currentSort'))
       => /\ visibleData' = Reverse(visibleData)
          /\ \A o \in SortOutcomes(visibleData', currentSort') : o = visibleData']_vars

\* the display the duration rule gives a seconds value
DurationShown(v) ==
  IF v.t # "number" \/ v.n <= 0 THEN <<"0", ":", "0", "0">>
  ELSE LET w == v.n \div 2
           hours == w \div 3600
           minutes == (w % 3600) \div 60
           seconds == w % 60
       IN  IF hours = 0 THEN NatDigits(minutes) \o <<":">> \o Pad2(seconds)
           ELSE NatDigits(hours) \o <<":">> \o Pad2(minutes) \o <<":">> \o Pad2(seconds)

\* C15 as claimed: every record whose length is a seconds value (or missing) shows
\* "0:00" when the value is zero, negative or missing, and otherwise M:SS or
\* H:MM:SS of the whole seconds, zero-padded.
C15_Duration ==
  \A i \in 1..Len(audioData) :
    Get(audioData[i], "length").t # "string"
      => Get(audioData[i], "length_display") = Str(DurationShown(Get(audioData[i], "length")))

(***************************************************************************)
(* SpecRules: checkRule through processData, as a function of the one rule *)
(* of the one filtered column.  The rules on Title are those the popup     *)
(* builds; the rules on Year are all rule objects checkRule accepts, among *)
(* them first values that parseFloat does not read.                        *)
(***************************************************************************)
\* "Glove", 1989
FileGlove == AudioFile(<<"/", "m", "/", "f", ".", "m", "p", "3">>, "ok",
                       [title |-> <<"G", "l", "o", "v", "e">>, date |-> <<"1", "9", "8", "9">>], 20, {})
\* "a$", 2000
FileDollar == AudioFile(<<"/", "m", "/", "g", ".", "m", "p", "3">>, "ok",
                        [title |-> <<"a", "$">>, date |-> <<"2", "0", "0", "0">>], 30, {})
RuleScans == {<<FileGlove, FileLove, FileLoveless, FileDollar>>}

TitleValues == {<<"L", "o", "v", "e">>, <<"l", ".", "v", "e">>, <<"(">>, <<"a", "\\">>}
TitleRules ==
  {Rule(op, v, <<>>, mc, ww, rx) : op \in TextOps, v \in TitleValues, mc \in BOOLEAN, ww \in BOOLEAN, rx \in BOOLEAN}
YearValues == {<<"1", "9", "9", "0">>, <<"a", "b", "c">>, <<"x", "9">>}
YearRules ==
  {Rule(op, v, w, FALSE, FALSE, FALSE) : op \in NumOps, v \in YearValues, w \in {<<>>, <<"1", "9", "9", "9">>}}

InitRules ==
  \E scan \in RuleScans :
    \E filters \in {FiltersOf(<<r>>, <<>>) : r \in TitleRules} \cup {FiltersOf(<<>>, <<r>>) : r \in YearRules} :
      /\ InitState(generate_html(collect_metadata(scan)), filters, NoSort)
      /\ scanned = scan

NextRules ==
  \/ DOMContentLoaded
  \/ handleSort("year")

SpecRules == InitRules /\ [][NextRules]_vars

\* the record is in the visible set
Shown(item) == \E j \in 1..Len(visibleData) : visibleData[j] = item
\* the page has refreshed with the rule as the one rule of the column
OnlyRule(key, rule) == loaded /\ DOMAIN activeFilters = {key} /\ activeFilters[key] = <<rule>>

\* C16: a between rule on Year whose two values are numbers shows a record exactly
\* when its year lies between them, the two bounds included.
C16_BetweenInclusive ==
  \A rule \in YearRules :
    (/\ OnlyRule("year", rule)
     /\ rule.operator = "between"
     /\ ParseFloat(Str(rule.value)).t = "number"
     /\ ParseFloat(Str(rule.value2)).t = "number")
      => \A i \in 1..Len(audioData) :
           Shown(audioData[i]) <=> /\ ParseFloat(Str(rule.value)).n <= Get(audioData[i], "year").n
                                   /\ Get(audioData[i], "year").n <= ParseFloat(Str(rule.value2)).n

\* between 1990 and 1999 over the years 1989, 1990, 1999, 2000: the records of 1990
\* and 1999 are shown, the other two are not
C16_Witness ==
  /\ OnlyRule("year", Rule("between", <<"1", "9", "9", "0">>, <<"1", "9", "9", "9">>, FALSE, FALSE, FALSE))
  /\ {Get(audioData[i], "year") : i \in 1..Len(audioData)} = {Int2(1989), Int2(1990), Int2(1999), Int2(2000)}
  /\ {Get(visibleData[i], "year") : i \in 1..Len(visibleData)} = {Int2(1990), Int2(1999)}

\* C17: a rule on Year whose first value parseFloat does not read hides no record,
\* whatever its operator.
C17_UnparsedValue ==
  \A rule \in YearRules :
    (OnlyRule("year", rule) /\ ParseFloat(Str(rule.value)).t = "NaN")
      => \A i \in 1..Len(audioData) : Shown(audioData[i])

\* "less than abc" is the rule of Year and every record is shown
C17_Witness ==
  /\ OnlyRule("year", Rule("lt", <<"a", "b", "c">>, <<>>, FALSE, FALSE, FALSE))
  /\ Len(audioData) = 4
  /\ SameRecords(visibleData, audioData)

\* the text stands in the target from position p with a word boundary on either side
EdgeAt(target, p) ==
  (p > 1 /\ IsWordChar(target[p - 1])) # (p <= Len(target) /\ IsWordChar(target[p]))
OccursAsWord(text, target, matchCase) ==
  \E p \in 1..(Len(target) - Len(text) + 1) :
    /\ LET part == SubSeq(target, p, p + Len(text) - 1)
       IN  IF matchCase THEN part = text ELSE ToLowerCase(part) = ToLowerCase(text)
    /\ EdgeAt(target, p)
    /\ EdgeAt(target, p + Len(text))

\* C18: a whole-word rule on Title that is no regular expression shows a record
\* exactly when its value stands in the title between word boundaries, whatever
\* the operator, except that not_contains shows the other records.
C18_WholeWord ==
  \A rule \in TitleRules :
    (OnlyRule("track_name", rule) /\ rule.wholeWord /\ ~rule.useRegex)
      => \A i \in 1..Len(audioData) :
           Shown(audioData[i])
             <=> (OccursAsWord(rule.value, Get(audioData[i], "track_name").s, rule.matchCase)
                    # (rule.operator = "not_contains"))

\* contains "Love" as a whole word: "Love Story" is shown, "Loveless" and "Glove" are not
C18_Witness ==
  /\ OnlyRule("track_name", Rule("contains", <<"L", "o", "v", "e">>, <<>>, FALSE, TRUE, FALSE))
  /\ {Get(visibleData[i], "track_name").s : i \in 1..Len(visibleData)}
       = {<<"L", "o", "v", "e", " ", "S", "t", "o", "r", "y">>}
  /\ \E i \in 1..Len(audioData) : Get(audioData[i], "track_name").s = <<"L", "o", "v", "e", "l", "e", "s", "s">>

\* C19 as claimed: a regular-expression rule whose value the RegExp constructor
\* rejects shows no record, whatever the operator.
C19_InvalidRegex ==
  \A rule \in TitleRules :
    (OnlyRule("track_name", rule) /\ rule.useRegex /\ ~RegExpCompiles(rule.value))
      => visibleData = <<>>

\* the selected columns, in catalog order
SelectedColumns(cols, list) ==
  SelectSeq(cols, LAMBDA c : \E i \in 1..Len(list) : list[i].key = c.key /\ list[i].checked)
\* the text the claimed shape gives: the header row of labels, then one row per record
\* with the values of the selected columns as text, the display string for the duration
\* column; valueText says how a value is written
ShapeText(cols, list, data, delimiter, valueText(_)) ==
  LET sel == SelectedColumns(cols, list)
      header == Join([i \in 1..Len(sel) |-> escapeCSV(sel[i].label, delimiter)], delimiter)
      cell(item, c) == IF c.type = "duration" THEN Get(item, "length_display").s
                       ELSE valueText(Get(item, c.key))
      row(item) == Join([i \in 1..Len(sel) |-> escapeCSV(cell(item, sel[i]), delimiter)], delimiter)
  IN  header \o <<"\n">> \o Join([r \in 1..Len(data) |-> row(data[r])], <<"\n">>)

\* C20 as claimed: an export that produces text produces the header row of the selected
\* columns' labels in catalog order, then one row per visible record in visible order
\* holding the values of those columns, the duration column as its display string.
C20_ExportShape ==
  [][(last'.action = "performExport" /\ last'.text # <<>>)
       => last'.text = ShapeText(columns, exportList, visibleData, last'.delimiter, StringOf)]_vars

(***************************************************************************)
(* SpecEscape: exports, with each delimiter, of titles that hold a         *)
(* delimiter, a quote or a line break.                                     *)
(***************************************************************************)
Titled(path, title) == AudioFile(path, "ok", [title |-> title], 20, {})
\* "a,b"
FileComma == Titled(<<"/", "m", "/", "h", ".", "m", "p", "3">>, <<"a", ",", "b">>)
\* "a;b|c"
FileSemi == Titled(<<"/", "m", "/", "i", ".", "m", "p", "3">>, <<"a", ";", "b", "|", "c">>)
\* say "hi", with the quotes
FileSay == Titled(<<"/", "m", "/", "j", ".", "m", "p", "3">>, <<"s", "a", "y", " ", "\"", "h", "i", "\"">>)
\* two lines
FileLines == Titled(<<"/", "m", "/", "k", ".", "m", "p", "3">>, <<"u", "p", "\n", "d", "o", "w", "n">>)
\* a\tb, with a backslash and a t
FileSlashT == Titled(<<"/", "m", "/", "l", ".", "m", "p", "3">>, <<"a", "\\", "t", "b">>)
EscapeScans == {<<FileComma, FileSay>>, <<FileSemi, FileLines>>, <<FileSlashT, FileLove>>}

InitEscape ==
  \E scan \in EscapeScans : InitPage(generate_html(collect_metadata(scan))) /\ scanned = scan

NextEscape ==
  \/ DOMContentLoaded
  \/ openExport
  \/ \E i \in ExportBoxes : toggleExport(i)
  \/ \E checked \in BOOLEAN : exportSelect(checked)
  \/ closeExport
  \/ \E option \in DelimiterOptions : performExport("csv", option)

SpecEscape == InitEscape /\ [][NextEscape]_vars

\* sub stands somewhere in s
Occurs(sub, s) == \E i \in 1..(Len(s) - Len(sub) + 1) : SubSeq(s, i, i + Len(sub) - 1) = sub
\* the cell as the escaping rule emits it
RECURSIVE Doubled(_)
Doubled(s) ==
  IF s = <<>> THEN <<>>
  ELSE IF Head(s) = "\"" THEN <<"\"", "\"">> \o Doubled(Tail(s))
  ELSE <<Head(s)>> \o Doubled(Tail(s))
Emitted(cell, delimiter) ==
  IF Occurs(delimiter, cell) \/ Occurs(<<"\"">>, cell) \/ Occurs(<<"\n">>, cell)
  THEN <<"\"">> \o Doubled(cell) \o <<"\"">>
  ELSE cell
\* the text of the cell of a record under a selected key, before escaping
CellText(item, k) ==
  LET val == IF k = "length" THEN Get(item, "length_display") ELSE Get(item, k)
  IN  IF Truthy(val) THEN StringOf(val) ELSE <<>>
EmittedText(cols, keys, data, delimiter) ==
  Join([i \in 1..Len(keys) |-> Emitted(FindByKey(cols, keys[i])[1].label, delimiter)], delimiter)
    \o <<"\n">>
    \o Join([r \in 1..Len(data) |->
               Join([i \in 1..Len(keys) |-> Emitted(CellText(data[r], keys[i]), delimiter)], delimiter)],
            <<"\n">>)

\* C21: in the text of an export every header cell and every data cell stands wrapped
\* in double quotes, its double quotes doubled, exactly when it holds the delimiter, a
\* double quote or a line break, and unchanged otherwise.
C21_Escaping ==
  [][(last'.action = "performExport" /\ last'.text # <<>>)
       => last'.text = EmittedText(columns, SelectedKeys(exportList), visibleData, last'.delimiter)]_vars

\* an export with the semicolon wrote "a;b|c" in quotes and the two-line title in quotes
C21_Witness ==
  /\ last.action = "performExport"
  /\ last.delimiter = Semicolon
  /\ Occurs(<<";", "\"", "a", ";", "b", "|", "c", "\"", ";">>, last.text)
  /\ Occurs(<<";", "\"", "u", "p", "\n", "d", "o", "w", "n", "\"", ";">>, last.text)


\* the header cells of an exported text
HeaderCells(text, delimiter) == splitCSV(Split(text, "\n")[1], delimiter)

\* C22 as claimed: no export writes a column for the cover or for the file path: the
\* header row of an exported text holds neither the label nor the key of either.
C22_NoCoverNoPath ==
  [][(last'.action = "performExport" /\ last'.text # <<>>)
       => \A i \in 1..Len(HeaderCells(last'.text, last'.delimiter)) :
            ToLowerCase(HeaderCells(last'.text, last'.delimiter)[i])
              \notin {<<"c", "o", "v", "e", "r", " ", "a", "r", "t">>, <<"c", "o", "v", "e", "r">>,
                      <<"f", "i", "l", "e", "_", "p", "a", "t", "h">>, <<"f", "i", "l", "e", "p", "a", "t", "h">>}]_vars

(***************************************************************************)
(* SpecImport: texts pasted into the import dialog of a loaded page.       *)
(***************************************************************************)
\* cells that hold double quotes: Song "A", a lone quote, a"b, ""x, x,"y", none
QuoteTitles == {<<"S", "o", "n", "g", " ", "\"", "A", "\"">>, <<"\"">>, <<"a", "\"", "b">>,
                <<"\"", "\"", "x">>, <<"x", ",", "\"", "y", "\"">>, <<"P", "l", "a", "i", "n">>}
QuoteArtists == {<<"A", "r", "t", "i", "s", "t", "1">>, <<"\"", "B", "\"">>}
\* a cell with each of its double quotes written twice, in quotes when it holds a comma
QuoteCell(cell) ==
  IF Occurs(<<",">>, cell) THEN <<"\"">> \o Doubled(cell) \o <<"\"">> ELSE Doubled(cell)
\* header Title,Artist and one row of two such cells
QuoteText(title, artist) ==
  <<"T", "i", "t", "l", "e", ",", "A", "r", "t", "i", "s", "t", "\n">> \o QuoteCell(title) \o <<",">> \o QuoteCell(artist)
QuoteTexts == {QuoteText(t, a) : t \in QuoteTitles, a \in QuoteArtists}

\* header cells: a label, a key in capitals, a name of no column, a label in mixed
\* case, a label in small letters
HeaderNames == {<<"T", "i", "t", "l", "e">>, <<"T", "R", "A", "C", "K", "_", "N", "A", "M", "E">>,
                <<"B", "o", "g", "u", "s">>, <<"y", "E", "a", "R">>, <<"a", "r", "t", "i", "s", "t">>}
HeaderRows == [1..3 -> HeaderNames]
\* three header cells over the row 7,8,9
HeaderText(h) == h[1] \o <<",">> \o h[2] \o <<",">> \o h[3] \o <<"\n", "7", ",", "8", ",", "9">>
HeaderTexts == {HeaderText(h) : h \in HeaderRows}

\* cells no number can be read from: empty, blank, letters, digits then a letter, a sign
BadNumberCells == {<<>>, <<" ">>, <<"a", "b", "c">>, <<"1", "2", "a">>, <<"-">>}
NumberCells == BadNumberCells \cup {<<"7">>}
\* header Title,Year,Rating and one row Song,year,rating
NumberText(year, rating) ==
  <<"T", "i", "t", "l", "e", ",", "Y", "e", "a", "r", ",", "R", "a", "t", "i", "n", "g", "\n", "S", "o", "n", "g", ",">>
    \o year \o <<",">> \o rating
NumberTexts == {NumberText(y, r) : y \in NumberCells, r \in NumberCells}

\* Length cells with the seconds they stand for: plain numbers, M:SS, H:MM:SS
DurationCases ==
  {[cell |-> <<"9", "0">>, seconds |-> 90], [cell |-> <<"0">>, seconds |-> 0],
   [cell |-> <<"-", "5">>, seconds |-> 0 - 5],
   [cell |-> <<"1", ":", "0", "1">>, seconds |-> 61], [cell |-> <<"2", ":", "5">>, seconds |-> 125],
   [cell |-> <<"1", "0", ":", "0", "0">>, seconds |-> 600],
   [cell |-> <<"1", ":", "0", "1", ":", "0", "1">>, seconds |-> 3661]}
DurationText(cell) == <<"L", "e", "n", "g", "t", "h", "\n">> \o cell
DurationTexts == {DurationText(d.cell) : d \in DurationCases}

ImportTexts == QuoteTexts \cup HeaderTexts \cup NumberTexts \cup DurationTexts
ImportScans == {<<FileLove>>}

InitImport ==
  \E scan \in ImportScans : InitPage(generate_html(collect_metadata(scan))) /\ scanned = scan

NextImport ==
  \/ DOMContentLoaded
  \/ openImport
  \/ closeImport
  \/ \E text \in ImportTexts : performImportPaste(text, Comma)

SpecImport == InitImport /\ [][NextImport]_vars

\* C23: a row under the header Title,Artist in which every double quote of the two
\* cells is written twice is read as one record holding the two cells, each doubled
\* quote as one quote; Song ""A"",Artist1 gives the title Song "A" and the artist
\* Artist1.
C23_QuoteDoubling ==
  [][\A t \in QuoteTitles, a \in QuoteArtists :
       (last'.action = "performImportPaste" /\ last'.text = QuoteText(t, a))
         => /\ Len(audioData') = 1
            /\ Get(audioData'[1], "track_name") = Str(t)
            /\ Get(audioData'[1], "artist") = Str(a)]_vars

\* the row Song ""A"",Artist1 was imported
C23_Witness ==
  /\ last.action = "performImportPaste"
  /\ last.text = <<"T", "i", "t", "l", "e", ",", "A", "r", "t", "i", "s", "t", "\n",
                   "S", "o", "n", "g", " ", "\"", "\"", "A", "\"", "\"", ",", "A", "r", "t", "i", "s", "t", "1">>
  /\ Len(audioData) = 1
  /\ Get(audioData[1], "track_name").s = <<"S", "o", "n", "g", " ", "\"", "A", "\"">>
  /\ Get(audioData[1], "artist").s = <<"A", "r", "t", "i", "s", "t", "1">>

\* the header cell names the column, by its label or its key, whatever the case
Names(h, col) == ToLowerCase(h) \in {ToLowerCase(col.label), ToLowerCase(KeyText[col.key])}
\* the k-th cell of the row 7,8,9 as a value of the column
RowValue(k, col) == IF col.type = "number" THEN Int2(6 + k) ELSE Str(NatDigits(6 + k))

\* C24: after an import each column of type number or text holds, in the record, the
\* cell under a header cell that names it by label or key in any case, and its type
\* default (0, the empty text) when no header cell names it; the record holds nothing
\* for a header cell that names no column.
C24_HeaderMapping ==
  [][\A h \in HeaderRows :
       (last'.action = "performImportPaste" /\ last'.text = HeaderText(h))
         => /\ Len(audioData') = 1
            /\ DOMAIN audioData'[1] = ColumnKeys \cup {"length_display"}
            /\ \A c \in 1..Len(columns) :
                 columns[c].type \in {"number", "text"} =>
                   LET named == {k \in 1..3 : Names(h[k], columns[c])}
                       val == Get(audioData'[1], columns[c].key)
                   IN  IF named = {} THEN val = (IF columns[c].type = "number" THEN Int2(0) ELSE Str(<<>>))
                       ELSE \E k \in named : val = RowValue(k, columns[c])]_vars

\* the header TRACK_NAME,Bogus,yEaR over 7,8,9: the title is "7", the year 9, the
\* artist empty and the rating 0
C24_Witness ==
  /\ last.action = "performImportPaste"
  /\ last.text = HeaderText(<<<<"T", "R", "A", "C", "K", "_", "N", "A", "M", "E">>, <<"B", "o", "g", "u", "s">>, <<"y", "E", "a", "R">>>>)
  /\ Len(audioData) = 1
  /\ Get(audioData[1], "track_name") = Str(<<"7">>)
  /\ Get(audioData[1], "year") = Int2(9)
  /\ Get(audioData[1], "artist") = Str(<<>>)
  /\ Get(audioData[1], "rating") = Int2(0)

\* C25: a cell of a column of type number that is empty or that no number can be read
\* from is stored as 0, and the import goes through as any other: the record set is
\* replaced, the dialog closes and the count is reported, with no complaint.
C25_NumericCoercion ==
  [][\A y \in NumberCells, r \in NumberCells :
       (last'.action = "performImportPaste" /\ last'.text = NumberText(y, r))
         => /\ Len(audioData') = 1
            /\ last'.alert = "Imported items." /\ last'.count = 1
            /\ ~importActive'
            /\ Get(audioData'[1], "track_name") = Str(<<"S", "o", "n", "g">>)
            /\ (y \in BadNumberCells => Get(audioData'[1], "year") = Int2(0))
            /\ (r \in BadNumberCells => Get(audioData'[1], "rating") = Int2(0))
            /\ (y = <<"7">> => Get(audioData'[1], "year") = Int2(7))
            /\ (r = <<"7">> => Get(audioData'[1], "rating") = Int2(7))]_vars

\* the row Song,12a,7 was imported: the year is 0, the rating 7
C25_Witness ==
  /\ last.action = "performImportPaste"
  /\ last.text = NumberText(<<"1", "2", "a">>, <<"7">>)
  /\ last.alert = "Imported items."
  /\ Len(audioData) = 1
  /\ Get(audioData[1], "year") = Int2(0)
  /\ Get(audioData[1], "rating") = Int2(7)

\* C26: a Length cell that is a plain number, M:SS or H:MM:SS is stored as the seconds
\* it stands for (the number, 60*M + SS, 3600*H + 60*MM + SS), and the display string
\* of the imported record is the page's duration formatting of those seconds.
C26_DurationParsing ==
  [][\A d \in DurationCases :
       (last'.action = "performImportPaste" /\ last'.text = DurationText(d.cell))
         => /\ Len(audioData') = 1
            /\ Get(audioData'[1], "length") = Int2(d.seconds)
            /\ Get(audioData'[1], "length_display") = Str(formatLengthJS(Int2(d.seconds)))]_vars

\* the cell 1:01:01 was imported: 3661 seconds, shown as 1:01:01
C26_Witness ==
  /\ last.action = "performImportPaste"
  /\ last.text = DurationText(<<"1", ":", "0", "1", ":", "0", "1">>)
  /\ Len(audioData) = 1
  /\ Get(audioData[1], "length") = Int2(3661)
  /\ Get(audioData[1], "length_display").s = <<"1", ":", "0", "1", ":", "0", "1">>

(***************************************************************************)
(* SpecCustomize: the customize dialog - ticking boxes, dragging items,    *)
(* Apply and Cancel - over a sorted page.                                  *)
(***************************************************************************)
\* the boxes ticked: Title, Length
CustomizeBoxes == {2, 16}
\* the drags: Title onto Artist, Artist onto Cover Art
CustomizeDrags == {<<2, 3>>, <<3, 1>>}

NextCustomize ==
  \/ DOMContentLoaded
  \/ handleSort("year")
  \/ openCustomize
  \/ \E i \in CustomizeBoxes : toggleColumn(i)
  \/ \E d \in CustomizeDrags : handleDrop(d[1], d[2])
  \/ cancelCustomize
  \/ saveCustomize

SpecCustomize == Init /\ [][NextCustomize]_vars

\* C27: while the customize dialog is open nothing but Apply touches the catalog -
\* ticking, dragging and Cancel leave its order and every visible flag as they were
\* when the dialog opened - and Apply makes the catalog the columns of the dialog's
\* list, in its order, each visible as its box is ticked.
C27_CustomizeCommit ==
  [][customizeActive =>
       IF last'.action = "saveCustomize"
       THEN /\ Len(columns') = Len(dragList)
            /\ \A i \in 1..Len(dragList) :
                 /\ columns'[i].key = dragList[i].key
                 /\ columns'[i].visible = dragList[i].checked
                 /\ \E j \in 1..Len(columns) :
                      /\ columns[j].key = columns'[i].key
                      /\ columns[j].label = columns'[i].label
                      /\ columns[j].type = columns'[i].type
       ELSE columns' = columns]_vars

\* Cancel was clicked on a dialog whose list had been reordered and had a box changed
C27_Witness ==
  /\ last.action = "cancelCustomize"
  /\ ~customizeActive
  /\ [i \in 1..Len(dragList) |-> dragList[i].key] # [i \in 1..Len(columns) |-> columns[i].key]
  /\ \E i \in 1..Len(dragList) : dragList[i].checked # FindByKey(columns, dragList[i].key)[1].visible

\* C28: the column picker of the export dialog is filled from the catalog when the
\* dialog opens, and nothing done in the dialog - ticking, Select All, Deselect All,
\* Export, Close - changes the catalog's order, a visible flag or the rendered header.
C28_ExportSnapshot ==
  [][/\ last'.action = "openExport" =>
          /\ Len(exportList') = Len(columns)
          /\ \A i \in 1..Len(columns) :
               exportList'[i].key = columns[i].key /\ exportList'[i].checked = columns[i].visible
     /\ (exportActive \/ exportActive') => (columns' = columns /\ tableHead' = tableHead)]_vars

\* an export was made with the Length box ticked and the Title box cleared, while in
\* the catalog Length is hidden and Title visible
C28_Witness ==
  /\ last.action = "performExport" /\ last.text # <<>>
  /\ \E i \in 1..Len(exportList) : exportList[i].key = "length" /\ exportList[i].checked
  /\ \E i \in 1..Len(exportList) : exportList[i].key = "track_name" /\ ~exportList[i].checked
  /\ ~FindByKey(columns, "length")[1].visible
  /\ FindByKey(columns, "track_name")[1].visible
  /\ \E i \in 1..Len(tableHead) : tableHead[i].key = "track_name"

(***************************************************************************)
(* SpecCover: header clicks and filter popups, the Cover Art column among  *)
(* the columns tried.                                                      *)
(***************************************************************************)
NextCover ==
  \/ DOMContentLoaded
  \/ \E key \in {"cover", "year", "track_name"} : handleSort(key)
  \/ \E key \in {"cover", "track_name", "artist"} : openFilterPopup(key)
  \/ \E rule \in UiRules : addRule(rule)
  \/ closeFilter
  \/ applyFilters

SpecCover == Init /\ [][NextCover]_vars

\* C29 as claimed: the cover column never holds an active filter and is never the
\* sort key.
C29_CoverInert ==
  /\ "cover" \notin DOMAIN activeFilters
  /\ activeFilterColumn # "cover"
  /\ currentSort.key # "cover"


(***************************************************************************)
(* The pipeline as a whole.                                                *)
(***************************************************************************)
\* C30: once the page has loaded, after every handler or callback the visible set is
\* the record set filtered by the active filters (in record order) and then sorted by
\* the sort state, for the current values of the three, and the item count shown is
\* the size of the visible set.
C30_Pipeline ==
  loaded =>
    /\ visibleData \in SortOutcomes(FilterData(audioData, activeFilters), currentSort)
    /\ countDisplay = Len(visibleData)

\* rules are active and a sort is too, which shows the records that pass in another
\* order than the record set holds them
C30_Witness ==
  /\ loaded
  /\ DOMAIN activeFilters # {}
  /\ currentSort.key # "null"
  /\ Len(visibleData) >= 2
  /\ visibleData # FilterData(audioData, activeFilters)


(***************************************************************************)
(* SpecPopup: the filter popup of a text column and of a number column,    *)
(* with rules added, removed, cleared, applied and abandoned.               *)
(***************************************************************************)
RuleLess == Rule("contains", <<"l", "e", "s", "s">>, <<>>, FALSE, FALSE, FALSE)
RuleYearAfter == Rule("gt", <<"1", "9", "9", "5">>, <<>>, FALSE, FALSE, FALSE)
RuleYearBetween == Rule("between", <<"1", "9", "9", "0">>, <<"1", "9", "9", "5">>, FALSE, FALSE, FALSE)
\* between with the second input left empty
RuleYearFrom == Rule("between", <<"1", "9", "9", "0">>, <<>>, FALSE, FALSE, FALSE)
PopupRules == {RuleLove, RuleLess, RuleYearAfter, RuleYearBetween, RuleYearFrom}
PopupKeys == {"track_name", "year"}

NextPopup ==
  \/ DOMContentLoaded
  \/ handleSort("year")
  \/ \E key \in PopupKeys : openFilterPopup(key)
  \/ \E rule \in PopupRules : addRule(rule)
  \/ \E idx \in 1..Len(pendingFilters) : removeRule(idx)
  \/ clearColumn
  \/ closeFilter
  \/ clickOutside
  \/ applyFilters

SpecPopup == Init /\ [][NextPopup]_vars

\* the rule list a popup opened on column key starts from
StartingList(filters, key) == IF key \in DOMAIN filters THEN filters[key] ELSE <<>>
\* the two rule sets agree on every column but key
SameButFor(f, g, key) ==
  /\ DOMAIN f \ {key} = DOMAIN g \ {key}
  /\ \A k \in DOMAIN f \ {key} : f[k] = g[k]

\* C31: adding, removing or clearing a rule changes the pending list and nothing else;
\* closing the popup (Close, or a click outside) and opening a popup leave the active
\* filters, the visible set and the count as they were, and a popup always opens on
\* the active rule list of its column, so edits that were not applied are gone; the
\* active filters change only by Apply in a shown popup, only in the entry of the
\* popup's column, which becomes the pending list, or is removed when that is empty.
C31_PopupIsolation ==
  [][/\ last'.action \in {"addRule", "removeRule", "clearColumn"} =>
          UNCHANGED <<audioData, columns, currentSort, activeFilters, activeFilterColumn, popupShown,
                      visibleData, countDisplay, tableHead, tableRows>>
     /\ last'.action \in {"closeFilter", "clickOutside"} =>
          /\ ~popupShown'
          /\ UNCHANGED <<audioData, columns, currentSort, activeFilters, visibleData, countDisplay,
                         tableHead, tableRows>>
     /\ last'.action = "openFilterPopup" =>
          /\ popupShown'
          /\ pendingFilters' = StartingList(activeFilters, activeFilterColumn')
          /\ UNCHANGED <<audioData, columns, currentSort, activeFilters, visibleData, countDisplay,
                         tableHead, tableRows>>
     /\ activeFilters' # activeFilters =>
          /\ last'.action = "applyFilters"
          /\ popupShown
          /\ activeFilterColumn' = activeFilterColumn
          /\ SameButFor(activeFilters, activeFilters', activeFilterColumn)
          /\ StartingList(activeFilters', activeFilterColumn) = pendingFilters
     /\ last'.action = "applyFilters" =>
          /\ SameButFor(activeFilters, activeFilters', activeFilterColumn)
          /\ StartingList(activeFilters', activeFilterColumn) = pendingFilters
          /\ (activeFilterColumn \in DOMAIN activeFilters') = (Len(pendingFilters) > 0)
    ]_vars

\* a popup was closed on a pending list that differs from the active rules of its
\* column, which still constrain the table
C31_Witness ==
  /\ last.action \in {"closeFilter", "clickOutside"}
  /\ activeFilterColumn \in DOMAIN activeFilters
  /\ pendingFilters # activeFilters[activeFilterColumn]
  /\ Len(visibleData) < Len(audioData)


(***************************************************************************)
(* SpecCatalog: customize dialogs in between imports and exports.          *)
(***************************************************************************)
\* the box the model ticks: Length
CatalogBoxes == {16}
\* the drag: the third item onto the first
CatalogDrags == {<<3, 1>>}

NextCatalog ==
  \/ DOMContentLoaded
  \/ openCustomize
  \/ \E i \in CatalogBoxes : toggleColumn(i)
  \/ \E d \in CatalogDrags : handleDrop(d[1], d[2])
  \/ cancelCustomize
  \/ saveCustomize
  \/ openImport
  \/ closeImport
  \/ performImportPaste(TextOk, Comma)
  \/ openExport
  \/ toggleExport(1)
  \/ closeExport
  \/ performExport("csv", Comma)

SpecCatalog == Init /\ [][NextCatalog]_vars

KeySeq(cols) == [i \in 1..Len(cols) |-> cols[i].key]

\* C32: whatever customize dialogs, imports and exports have run, the column catalog
\* holds the 21 default columns, each key once, and a column differs from its default
\* in nothing but its place and its visible flag.
C32_CatalogPermutation ==
  /\ Len(columns) = Len(DefaultColumns)
  /\ \A i, j \in 1..Len(columns) : columns[i].key = columns[j].key => i = j
  /\ \A i \in 1..Len(columns) :
       \E j \in 1..Len(DefaultColumns) :
         [columns[i] EXCEPT !.visible = DefaultColumns[j].visible] = DefaultColumns[j]

\* an export ran on imported records after a customization that moved one column and
\* hid another
C32_Witness ==
  /\ last.action = "performExport" /\ last.download # <<>>
  /\ audioData # generate_html(collect_metadata(scanned))
  /\ KeySeq(columns) # KeySeq(DefaultColumns)
  /\ \E i \in 1..Len(columns) : columns[i].visible # FindByKey(DefaultColumns, columns[i].key)[1].visible


(***************************************************************************)
(* SpecLine: escapeCSV and splitCSV on one line of cells, with the         *)
(* delimiters the export and import handlers pass them.                    *)
(***************************************************************************)
\* cells without a line break: empty, plain, padded, holding each delimiter, holding
\* quotes, made of quotes only
LineCells ==
  {<<>>, <<"a">>, <<" ", "x", " ">>, <<",">>, <<"a", ";", "b">>, <<"|">>, <<"\\", "t">>,
   <<"a", "\"", "b">>, <<"\"", "a">>, <<"\"">>, <<"\"", "\"">>}
LineInputs == UNION {[1..n -> LineCells] : n \in 1..MaxCells}
LineDelimiters == {DelimiterOf(option) : option \in DelimiterOptions}

\* the line an export writes for the cells: cols.map(escapeCSV).join(delimiter)
escapeLine(cells, delimiter) ==
  /\ ~loaded
  /\ last' = [action |-> "escapeCSV", cells |-> cells, delimiter |-> delimiter,
              line |-> Join([i \in 1..Len(cells) |-> escapeCSV(cells[i], delimiter)], delimiter),
              result |-> <<>>]
  /\ UNCHANGED <<scanned, dataVars, columns, currentSort, filterVars, popupShown, modalVars, listVars,
                 exportTextarea, pendingReads, loaded>>

\* splitCSV on the line written last, with the same delimiter
splitLine ==
  /\ ~loaded
  /\ last.action = "escapeCSV"
  /\ last' = [last EXCEPT !.action = "splitCSV", !.result = splitCSV(last.line, last.delimiter)]
  /\ UNCHANGED <<scanned, dataVars, columns, currentSort, filterVars, popupShown, modalVars, listVars,
                 exportTextarea, pendingReads, loaded>>

NextLine ==
  \/ \E cells \in LineInputs, delimiter \in LineDelimiters : escapeLine(cells, delimiter)
  \/ splitLine

SpecLine == Init /\ [][NextLine]_vars

\* C33 as claimed: for each of the four delimiters and every sequence of cells without
\* a line break, splitCSV of the delimiter-join of the escaped cells is the sequence
\* of cells again.
C33_LineRoundTrip == last.action = "splitCSV" => last.result = last.cells


(***************************************************************************)
(* SpecHide: a column that carries rules and the sort is hidden and shown  *)
(* again through the customize dialog.                                     *)
(***************************************************************************)
NextHide ==
  \/ DOMContentLoaded
  \/ \E key \in {"track_name", "year"} : handleSort(key)
  \/ openFilterPopup("track_name")
  \/ \E rule \in {RuleLove, RuleLess} : addRule(rule)
  \/ clearColumn
  \/ applyFilters
  \/ openCustomize
  \/ toggleColumn(2)
  \/ cancelCustomize
  \/ saveCustomize

SpecHide == Init /\ [][NextHide]_vars

HiddenKeys(cols) == {cols[i].key : i \in {j \in 1..Len(cols) : ~cols[j].visible}}

\* C34: committing the customize dialog leaves the active filters, the sort state,
\* the visible set and the item count as they were, whatever it hides; and while a
\* column is hidden its rules and a sort on it stay in force: after every step the
\* visible set is still the record set filtered by all active rules, those of hidden
\* columns included, and sorted by the sort state.
C34_HideKeepsPipeline ==
  [][/\ last'.action = "saveCustomize" =>
          /\ UNCHANGED <<audioData, activeFilters, currentSort, visibleData, countDisplay>>
          /\ tableRows' = visibleData
     /\ loaded' =>
          /\ visibleData' \in SortOutcomes(FilterData(audioData', activeFilters'), currentSort')
          /\ countDisplay' = Len(visibleData')
          /\ tableRows' = visibleData'
    ]_vars

\* the Title column was hidden by a commit while it carried a rule that stops a
\* record and the sort
C34_Witness ==
  /\ last.action = "saveCustomize"
  /\ "track_name" \in HiddenKeys(columns)
  /\ "track_name" \in DOMAIN activeFilters
  /\ currentSort.key = "track_name"
  /\ Len(visibleData) >= 1
  /\ Len(visibleData) < Len(audioData)


\* between, its first value read as a number and its second not
HalfOpen(rule) ==
  /\ rule.operator = "between"
  /\ ParseFloat(Str(rule.value)).t = "number"
  /\ ParseFloat(Str(rule.value2)).t = "NaN"

\* C35: the popup of a number column appends every rule whose first value is not
\* blank, a between rule with the second value left empty included; and once such a
\* rule is the active rule of the column no record is shown.
C35_BetweenWithoutEnd ==
  [][/\ \A rule \in PopupRules :
          (addRule(rule) /\ Len(Trim(rule.value)) > 0) => pendingFilters' = Append(pendingFilters, rule)
     /\ \A rule \in PopupRules :
          (loaded' /\ HalfOpen(rule) /\ "year" \in DOMAIN activeFilters' /\ activeFilters'["year"] = <<rule>>)
            => (visibleData' = <<>> /\ countDisplay' = 0)
    ]_vars

\* "between 1990 and nothing", built in the popup of Year and applied, is the one
\* active rule; the records of 1990 and 1999 are in the record set and nothing is shown
C35_Witness ==
  /\ OnlyRule("year", RuleYearFrom)
  /\ last.action = "applyFilters"
  /\ {Int2(1990), Int2(1999)} \subseteq {Get(audioData[i], "year") : i \in 1..Len(audioData)}
  /\ visibleData = <<>>

====
